---- MODULE Spec2Model ----
(***************************************************************************)
(* Typed document stores of the agent server: AgentDocumentStore           *)
(* (core/agents.py) and GuidelineDocumentStore (core/guidelines.py).       *)
(*                                                                         *)
(* Every store method is a coroutine.  Each `await` on the store's         *)
(* ReaderWriterLock or on a DocumentCollection is a suspension point, so a *)
(* method is a sequence of steps (one per collection call) and the steps   *)
(* of different callers interleave.  pc[p] is the position of caller p in  *)
(* the method it is running, op[p] the method and its arguments, loc[p]    *)
(* its local variables and result[p] what the method returned or raised.   *)
(*                                                                         *)
(* The two stores are modelled by one state machine; the variable `store`  *)
(* says which store the run is about.  An association document has the     *)
(* field agent_id in agent_tags and guideline_id in                        *)
(* guideline_tag_associations; the model calls it entity_id in both.       *)
(***************************************************************************)
EXTENDS Integers, Sequences, FiniteSets, TLC

\* ------------------------------------------------------------------ bounds
NumProcs == 2
MaxOps == 2
MaxIds == 4
MaxGenerators == 3
MaxModules == 3

Procs == 1..NumProcs
Tags == {"t1", "t2"}
MetaKeys == {"k1", "k2"}

\* ------------------------------------------------------- values and inputs
AGENT_VERSION == "0.3.0"
GUIDELINE_VERSION == "0.4.0"

VERSION(s) == IF s = "agents" THEN AGENT_VERSION ELSE GUIDELINE_VERSION

Stores == {"agents", "guidelines"}

\* datetime.now(timezone.utc)
Now == "now"
\* creation_utc argument: None or a supplied timestamp
CreationArgs == {"None"}

isoformat(dt) == <<"iso", dt>>
fromisoformat(s) == s[2]

\* tags argument of create and list: None, or a sequence of tag ids (a
\* Sequence[TagId] may repeat a tag)
NoTagsArg == <<"None">>
TagArgs == {NoTagsArg, <<>>, <<"t1">>, <<"t1", "t2">>, <<"t1", "t1">>}
\* tags argument of list_guidelines
TagFilters == {NoTagsArg, <<>>, <<"t1">>, <<"t2">>, <<"t1", "t2">>}
\* `tags or []`
TagsOrEmpty(tags) == IF tags = NoTagsArg THEN <<>> ELSE tags

EmptyMap == [k \in {} |-> "v"]
\* {**m1, **m2}
Override(m1, m2) ==
    [k \in (DOMAIN m1) \cup (DOMAIN m2) |-> IF k \in DOMAIN m2 THEN m2[k] ELSE m1[k]]
\* {k: v for k, v in m.items() if k not in keys}
Without(m, keys) == [k \in (DOMAIN m) \ keys |-> m[k]]

Range(s) == {s[i] : i \in DOMAIN s}

\* AgentUpdateParams (total=False): the keys present are the ones to change
AgentNewValues ==
    [name |-> "n2", description |-> "d2", max_engine_iterations |-> 2,
     composition_mode |-> "strict_utterance"]
AgentUpdateParams ==
    {[f \in S |-> AgentNewValues[f]] : S \in (SUBSET {"name", "max_engine_iterations"}) \ {{}}}

\* GuidelineUpdateParams (total=False)
GuidelineNewValues ==
    [condition |-> "c2", action |-> "a2", enabled |-> FALSE, metadata |-> [k1 |-> "v2"]]
GuidelineUpdateParams ==
    {[f \in S |-> GuidelineNewValues[f]] : S \in (SUBSET {"enabled", "metadata"}) \ {{}}}

\* metadata arguments of add_metadata / key arguments of remove_metadata
MetadataArgs == {[k \in {key} |-> "v1"] : key \in MetaKeys}
KeyArgs == {{key} : key \in MetaKeys}

\* ------------------------------------------------------------------- state
VARIABLES
    fallback,   \* FallbackSchematicGenerator: its generators and the calls made on them
    modules,    \* load_modules: the module list, its locals, the hooks invoked
    waiters,    \* callers parked on self._lock, in order of arrival
    registry,   \* ServiceDocumentRegistry: running services, exit stack, collection
    meta,       \* last-seen schema version in the database's metadata record
    opening,    \* progress and outcome of the store's __aenter__
    store,      \* which typed store the run is about
    docs,       \* primary collection (agents / guidelines), insertion order
    assocs,     \* tag association collection, insertion order
    nextId,     \* number of ids generate_id has handed out
    writers,    \* callers holding the writer scope of self._lock
    readers,    \* callers holding the reader scope of self._lock
    pc, op, loc, result,
    seen,       \* history: per reading caller, the values its entity had
                \* outside writer critical sections since the read began
    opCount     \* number of store methods called so far

vars == <<fallback, modules, waiters, registry, meta, opening, store, docs, assocs, nextId, writers, readers, pc, op, loc, result,
          seen, opCount>>

NoOp == [name |-> "none", id |-> 0, tag |-> "t1", tags |-> NoTagsArg,
         args |-> EmptyMap, params |-> EmptyMap, keys |-> {}, creation_utc |-> "None"]
NoLoc == [doc |-> <<>>, list |-> <<>>, out |-> <<>>, i |-> 0, entity |-> <<>>, new_id |-> <<>>,
          map |-> EmptyMap, deleted |-> <<>>, filter |-> [mode |-> "all", ids |-> {}]]
NoResult == [kind |-> "none", value |-> <<>>]
\* no FallbackSchematicGenerator has been built, load_modules is not running
NoFallback == [generators |-> <<>>, pc |-> "none", call |-> "none", index |-> 0,
               invoked |-> <<>>, last_exception |-> <<>>, outcome |-> NoResult]
NoModules == [paths |-> <<>>, pc |-> "none", i |-> 0, imported_modules |-> <<>>,
              module |-> <<>>, initializers |-> <<>>, body |-> "none", shutdown |-> <<>>]
\* the registry before its __aenter__: nothing runs, nothing was entered
NoRegistry ==
    [running |-> EmptyMap, sources |-> {}, exit_stack |-> <<>>, collection |-> <<>>,
     instances |-> <<>>, closed |-> FALSE]

\* ids a caller may name: the id of a stored entity, or one that names none
Ids == {d.id : d \in Range(docs)} \cup {0}

Ok(v) == [kind |-> "ok", value |-> v]
Raise(e) == [kind |-> e, value |-> <<>>]

\* ------------------------------------------------ ReaderWriterLock (scopes)
\* faulty variant: the holder of the writer scope is excluded like any other
CanAcquireReader_foreign(p) == writers = {}

\* reader scope: excluded only by an active writer; the caller that holds
\* the writer scope may enter the reader scope (upsert_tag calls read_agent)
CanAcquireReader(p) == writers \subseteq {p}
\* writer scope: exclusive
CanAcquireWriter(p) == writers = {} /\ readers = {}

\* ------------------------------------------------------ DocumentCollection
\* faulty variant: every association document is cast, whatever its version
agent_association_document_loader_any(doc) == <<doc>>

\* the per-document loader of agent_tags
agent_association_document_loader(doc) ==
    IF doc.version = "0.3.0" THEN <<doc>> ELSE <<>>

\* faulty variant: a 0.3.0 association is cast, not converted
guideline_association_document_loader_cast(doc) ==
    IF doc.version = "0.3.0" \/ doc.version = "0.4.0" THEN <<doc>> ELSE <<>>

\* the per-document loader of guideline_tag_associations
guideline_association_document_loader(doc) ==
    IF doc.version = "0.3.0"
    THEN <<[id |-> doc.id, version |-> "0.4.0", creation_utc |-> doc.creation_utc,
            entity_id |-> doc.entity_id, tag_id |-> doc.tag_id]>>
    ELSE IF doc.version = "0.4.0" THEN <<doc>> ELSE <<>>

association_document_loader(s, doc) ==
    IF s = "agents" THEN agent_association_document_loader(doc)
    ELSE guideline_association_document_loader(doc)

RECURSIVE LoadAll(_, _)
LoadAll(s, coll) ==
    IF coll = <<>> THEN <<>>
    ELSE association_document_loader(s, Head(coll)) \o LoadAll(s, Tail(coll))

\* find({"id": {"$eq": id}}) on the primary collection
FindById(coll, id) == SelectSeq(coll, LAMBDA d : d.id = id)
\* find_one: first match or absent
FindOneById(coll, id) == IF FindById(coll, id) = <<>> THEN <<>> ELSE <<Head(FindById(coll, id))>>
\* find({"agent_id": {"$eq": id}}) on the association collection, through the loader
FindAssocsOf(s, coll, id) == SelectSeq(LoadAll(s, coll), LAMBDA d : d.entity_id = id)

\* filters of the form {field: {"$eq": value}, ...}
MatchesEq(d, filters) == \A f \in DOMAIN filters : d[f] = filters[f]

RECURSIVE IndexOfFirst(_, _, _)
IndexOfFirst(coll, filters, i) ==
    IF i > Len(coll) THEN 0
    ELSE IF MatchesEq(coll[i], filters) THEN i ELSE IndexOfFirst(coll, filters, i + 1)

RemoveAt(coll, i) == SubSeq(coll, 1, i - 1) \o SubSeq(coll, i + 1, Len(coll))

\* delete_one(filters): removes the first match; deleted_count is 0 or 1
DeleteOne(coll, filters) ==
    LET i == IndexOfFirst(coll, filters, 1)
    IN IF i = 0 THEN [coll |-> coll, deleted |-> <<>>]
       ELSE [coll |-> RemoveAt(coll, i), deleted |-> <<coll[i]>>]

\* update_one(filters, params): partial-field update of the first match
UpdateOne(coll, id, params) ==
    LET i == IndexOfFirst(coll, [id |-> id], 1)
        new == [f \in (DOMAIN coll[i]) \cup (DOMAIN params) |->
                   IF f \in DOMAIN params THEN params[f] ELSE coll[i][f]]
    IN IF i = 0 THEN [coll |-> coll, updated |-> <<>>]
       ELSE [coll |-> [coll EXCEPT ![i] = new], updated |-> <<new>>]

\* insert_one(document)
InsertOne(coll, doc) == Append(coll, doc)

\* ------------------------------------------------------------ typed stores
Tags_of(s, as, id) ==
    LET found == FindAssocsOf(s, as, id)
    IN [i \in 1..Len(found) |-> found[i].tag_id]

_deserialize_agent(doc, as) ==
    [id |-> doc.id,
     creation_utc |-> fromisoformat(doc.creation_utc),
     name |-> doc.name,
     description |-> doc.description,
     max_engine_iterations |-> doc.max_engine_iterations,
     tags |-> Tags_of("agents", as, doc.id),
     composition_mode |-> doc.composition_mode]

_deserialize(doc, as) ==
    [id |-> doc.id,
     creation_utc |-> fromisoformat(doc.creation_utc),
     condition |-> doc.condition,
     action |-> doc.action,
     enabled |-> doc.enabled,
     tags |-> Tags_of("guidelines", as, doc.id),
     metadata |-> doc.metadata]

Deserialize(s, doc, as) ==
    IF s = "agents" THEN _deserialize_agent(doc, as) ELSE _deserialize(doc, as)

\* faulty variant: the composition mode is not stored
_serialize_agent_fluid(agent) ==
    [id |-> agent.id,
     version |-> AGENT_VERSION,
     creation_utc |-> isoformat(agent.creation_utc),
     name |-> agent.name,
     description |-> agent.description,
     max_engine_iterations |-> agent.max_engine_iterations,
     composition_mode |-> "fluid"]

_serialize_agent(agent) ==
    [id |-> agent.id,
     version |-> AGENT_VERSION,
     creation_utc |-> isoformat(agent.creation_utc),
     name |-> agent.name,
     description |-> agent.description,
     max_engine_iterations |-> agent.max_engine_iterations,
     composition_mode |-> agent.composition_mode]

_serialize(guideline) ==
    [id |-> guideline.id,
     version |-> GUIDELINE_VERSION,
     creation_utc |-> isoformat(guideline.creation_utc),
     condition |-> guideline.condition,
     action |-> guideline.action,
     enabled |-> guideline.enabled,
     metadata |-> guideline.metadata]

AssociationDocument(s, id, creation_utc, entity_id, tag) ==
    [id |-> id, version |-> VERSION(s), creation_utc |-> isoformat(creation_utc),
     entity_id |-> entity_id, tag_id |-> tag]

\* the entity a read of `id` returns when it runs alone: absent or one value
View(s, ds, as, id) ==
    IF FindOneById(ds, id) = <<>> THEN <<>>
    ELSE <<Deserialize(s, FindOneById(ds, id)[1], as)>>

\* `x or default` on an optional argument
OrElse(x, default) == IF x = "None" THEN default ELSE x
\* `max_engine_iterations or 1`: None and 0 are both falsy
OrOne(x) == IF x = <<>> \/ x = <<0>> THEN 1 ELSE x[1]

\* arguments of create_agent / create_guideline other than tags, creation_utc
AgentArgs ==
    [name : {"n1"}, description : {"None"}, max_engine_iterations : {<<>>},
     composition_mode : {"None"}]

GuidelineArgs ==
    [condition : {"c1"}, action : {"a1"}, metadata : {EmptyMap},
     enabled : {TRUE}]

\* the Agent built by create_agent
NewAgent(id, a, creation_utc, tags) ==
    [id |-> id,
     name |-> a.name,
     description |-> a.description,
     creation_utc |-> OrElse(creation_utc, Now),
     max_engine_iterations |-> OrOne(a.max_engine_iterations),
     tags |-> TagsOrEmpty(tags),
     composition_mode |-> OrElse(a.composition_mode, "fluid")]

\* the Guideline built by create_guideline
NewGuideline(id, a, creation_utc, tags) ==
    [id |-> id,
     creation_utc |-> OrElse(creation_utc, Now),
     condition |-> a.condition,
     action |-> a.action,
     enabled |-> a.enabled,
     tags |-> TagsOrEmpty(tags),
     metadata |-> a.metadata]

\* ------------------------------------------------------------------- Init
\* the store is empty, or holds the one entity an earlier create call, with
\* the tags argument `tags`, left in it
Populations == {<<>>} \cup {<<tags>> : tags \in TagArgs \ {NoTagsArg}}

InitialDocs(s, pop) ==
    IF pop = <<>> THEN <<>>
    ELSE IF s = "agents"
    THEN <<_serialize_agent(NewAgent(1, CHOOSE a \in AgentArgs : TRUE, "None", pop[1]))>>
    ELSE <<_serialize(NewGuideline(1, CHOOSE a \in GuidelineArgs : TRUE, "None", pop[1]))>>

InitialAssocs(s, pop) ==
    IF pop = <<>> THEN <<>>
    ELSE [i \in 1..Len(pop[1]) |-> AssociationDocument(s, 1 + i, Now, 1, pop[1][i])]

Init ==
    /\ store \in Stores
    /\ \E pop \in Populations :
          /\ docs = InitialDocs(store, pop)
          /\ assocs = InitialAssocs(store, pop)
          /\ nextId = IF pop = <<>> THEN 0 ELSE 1 + Len(pop[1])
    /\ waiters = <<>>
    /\ fallback = NoFallback
    /\ modules = NoModules
    /\ registry = NoRegistry
    /\ meta = VERSION(store)
    /\ opening = [pc |-> "end", allow |-> FALSE, outcome |-> "usable", required |-> FALSE,
                  i |-> 0, buffer |-> <<>>, handed |-> {"primary", "associations"},
                  stored |-> [docs |-> <<>>, assocs |-> <<>>, meta |-> VERSION(store)]]
    /\ writers = {}
    /\ readers = {}
    /\ pc = [p \in Procs |-> "idle"]
    /\ op = [p \in Procs |-> NoOp]
    /\ loc = [p \in Procs |-> NoLoc]
    /\ result = [p \in Procs |-> NoResult]
    /\ seen = [p \in Procs |-> {}]
    /\ opCount = 0

\* The step that ends a method records its outcome and the caller takes it
\* (Finish) before anything else runs: taking the outcome touches only the
\* caller's own locals, so no interleaving is lost.
Quiet == \A q \in Procs : pc[q] # "done"
At(p, label) == pc[p] = label /\ Quiet

\* a caller starts a method; callers are interchangeable, so among the idle
\* ones it is the least that makes the next call
Call(p, o, label) ==
    /\ At(p, "idle")
    /\ \A q \in Procs : q < p => pc[q] # "idle"
    /\ opCount < MaxOps
    /\ opCount' = opCount + 1
    /\ op' = [op EXCEPT ![p] = o]
    /\ pc' = [pc EXCEPT ![p] = label]
    /\ UNCHANGED <<loc, result>>

\* the caller has consumed the outcome and is free to call again
Finish(p) ==
    /\ pc[p] = "done"
    /\ pc' = [pc EXCEPT ![p] = "idle"]
    /\ op' = [op EXCEPT ![p] = NoOp]
    /\ loc' = [loc EXCEPT ![p] = NoLoc]
    /\ result' = [result EXCEPT ![p] = NoResult]
    /\ seen' = [seen EXCEPT ![p] = {}]
    /\ UNCHANGED <<waiters, registry, meta, opening, store, fallback, modules, docs, assocs, nextId, writers, readers, opCount>>

\* leaving a writer scope: readers in flight may observe the new value
Observe(p, ds, as) ==
    seen' = [q \in Procs |->
                IF q # p /\ pc[q] \notin {"idle", "done"} /\ op[q].name = "read"
                THEN seen[q] \cup {View(store, ds, as, op[q].id)}
                ELSE seen[q]]

\* the method returns or raises; the caller then holds the outcome
Return(p, r) ==
    /\ pc' = [pc EXCEPT ![p] = "done"]
    /\ result' = [result EXCEPT ![p] = r]

Goto(p, label) ==
    /\ pc' = [pc EXCEPT ![p] = label]
    /\ UNCHANGED result

\* faulty variant: the writer scope of a lock the callers do not share
EnterWriter_unshared(p) == writers' = writers \cup {p} /\ UNCHANGED readers

\* async with self._lock.writer_lock: entry and exit
EnterWriter(p) == CanAcquireWriter(p) /\ writers' = writers \cup {p} /\ UNCHANGED readers
ExitWriter(p) == writers' = writers \ {p} /\ UNCHANGED readers /\ Observe(p, docs', assocs')
\* async with self._lock.reader_lock: entry and exit
EnterReader(p) == CanAcquireReader(p) /\ readers' = readers \cup {p} /\ UNCHANGED writers
ExitReader(p) == readers' = readers \ {p} /\ UNCHANGED writers

\* ------------------------------------------------------------ create_agent

\* ids generate_id will be asked for by a create with these tags
IdsNeeded(tags) == 1 + Len(TagsOrEmpty(tags))

create_agent(p) ==
    /\ store = "agents"
    /\ \E a \in AgentArgs, tags \in TagArgs, c \in CreationArgs :
          /\ nextId + IdsNeeded(tags) <= MaxIds
          /\ Call(p, [NoOp EXCEPT !.name = "create", !.args = a, !.tags = tags,
                                   !.creation_utc = c], "create_agent_insert")
    /\ EnterWriter(p)
    /\ UNCHANGED <<waiters, registry, meta, opening, store, fallback, modules, docs, assocs, nextId, seen>>

\* faulty variant: the writer scope covers the primary insert only
create_agent_insert_unscoped(p) ==
    /\ UNCHANGED <<waiters, registry, meta, opening, store, fallback, modules, assocs, op, opCount>>
    /\ At(p, "create_agent_insert")
    /\ LET agent == NewAgent(nextId + 1, op[p].args, op[p].creation_utc, op[p].tags)
       IN /\ docs' = InsertOne(docs, _serialize_agent(agent))
          /\ loc' = [loc EXCEPT ![p].entity = <<agent>>, ![p].i = 1]
    /\ nextId' = nextId + 1
    /\ ExitWriter(p)
    /\ Goto(p, "create_tags")

create_agent_insert(p) ==
    /\ At(p, "create_agent_insert")
    /\ LET agent == NewAgent(nextId + 1, op[p].args, op[p].creation_utc, op[p].tags)
       IN /\ docs' = InsertOne(docs, _serialize_agent(agent))
          /\ loc' = [loc EXCEPT ![p].entity = <<agent>>, ![p].i = 1]
    /\ nextId' = nextId + 1
    /\ Goto(p, "create_tags")
    /\ UNCHANGED <<waiters, registry, meta, opening, store, fallback, modules, assocs, writers, readers, op, seen, opCount>>

\* -------------------------------------------------------- create_guideline
create_guideline(p) ==
    /\ store = "guidelines"
    /\ \E a \in GuidelineArgs, tags \in TagArgs, c \in CreationArgs :
          /\ nextId + IdsNeeded(tags) <= MaxIds
          /\ Call(p, [NoOp EXCEPT !.name = "create", !.args = a, !.tags = tags,
                                   !.creation_utc = c], "create_guideline_insert")
    /\ EnterWriter(p)
    /\ UNCHANGED <<waiters, registry, meta, opening, store, fallback, modules, docs, assocs, nextId, seen>>

create_guideline_insert(p) ==
    /\ At(p, "create_guideline_insert")
    /\ LET guideline == NewGuideline(nextId + 1, op[p].args, op[p].creation_utc, op[p].tags)
       IN /\ docs' = InsertOne(docs, _serialize(guideline))
          /\ loc' = [loc EXCEPT ![p].entity = <<guideline>>, ![p].i = 1]
    /\ nextId' = nextId + 1
    /\ Goto(p, "create_tags")
    /\ UNCHANGED <<waiters, registry, meta, opening, store, fallback, modules, assocs, writers, readers, op, seen, opCount>>

\* `for tag in tags or []: insert_one(...)`, one iteration
create_tags(p) ==
    /\ At(p, "create_tags")
    /\ loc[p].i <= Len(TagsOrEmpty(op[p].tags))
    /\ assocs' = InsertOne(assocs,
                     AssociationDocument(store, nextId + 1,
                                         OrElse(op[p].creation_utc, Now),
                                         loc[p].entity[1].id,
                                         TagsOrEmpty(op[p].tags)[loc[p].i]))
    /\ nextId' = nextId + 1
    /\ loc' = [loc EXCEPT ![p].i = @ + 1]
    /\ Goto(p, "create_tags")
    /\ UNCHANGED <<waiters, registry, meta, opening, store, fallback, modules, docs, writers, readers, op, seen, opCount>>

\* end of the loop: the writer scope is left and the entity returned
create_return(p) ==
    /\ UNCHANGED <<waiters, registry, meta, opening, store, fallback, modules, docs, assocs, nextId, op, loc, opCount>>
    /\ At(p, "create_tags")
    /\ loc[p].i > Len(TagsOrEmpty(op[p].tags))
    /\ ExitWriter(p)
    /\ Return(p, Ok(loc[p].entity))

\* ------------------------------------------- read_agent / read_guideline
\* faulty variant: read takes the writer scope
read_agent_exclusive(p) ==
    /\ \E id \in Ids : Call(p, [NoOp EXCEPT !.name = "read", !.id = id], "read_find")
    /\ EnterWriter(p)
    /\ seen' = [seen EXCEPT ![p] = {View(store, docs, assocs, op'[p].id)}]
    /\ UNCHANGED <<waiters, registry, meta, opening, store, fallback, modules, docs, assocs, nextId>>

read_agent(p) ==
    /\ \E id \in Ids : Call(p, [NoOp EXCEPT !.name = "read", !.id = id], "read_find")
    /\ EnterReader(p)
    /\ seen' = [seen EXCEPT ![p] = {View(store, docs, assocs, op'[p].id)}]
    /\ UNCHANGED <<waiters, registry, meta, opening, store, fallback, modules, docs, assocs, nextId>>

\* find_one inside the reader scope; the scope is left before the check
read_find(p) ==
    /\ At(p, "read_find")
    /\ ExitReader(p)
    /\ LET document == FindOneById(docs, op[p].id)
       IN IF document = <<>>
          THEN Return(p, Raise("ItemNotFoundError")) /\ UNCHANGED loc
          ELSE Goto(p, "read_deserialize") /\ loc' = [loc EXCEPT ![p].doc = document]
    /\ UNCHANGED <<waiters, registry, meta, opening, store, fallback, modules, docs, assocs, nextId, op, seen, opCount>>

\* `return await self._deserialize_agent(agent_document)`, outside the scope
read_deserialize(p) ==
    /\ At(p, "read_deserialize")
    /\ Return(p, Ok(<<Deserialize(store, loc[p].doc[1], assocs)>>))
    /\ UNCHANGED <<waiters, registry, meta, opening, store, fallback, modules, docs, assocs, nextId, writers, readers, op, loc, seen, opCount>>

\* ----------------------------------------- delete_agent / delete_guideline
delete_agent(p) ==
    /\ \E id \in Ids : Call(p, [NoOp EXCEPT !.name = "delete", !.id = id], "delete_one")
    /\ EnterWriter(p)
    /\ UNCHANGED <<waiters, registry, meta, opening, store, fallback, modules, docs, assocs, nextId, seen>>

\* faulty variant: the primary record is deleted without the cascade
delete_one_nocascade(p) ==
    /\ At(p, "delete_one")
    /\ LET r == DeleteOne(docs, [id |-> op[p].id])
       IN /\ docs' = r.coll
          /\ loc' = [loc EXCEPT ![p].deleted = r.deleted, ![p].list = <<>>, ![p].i = 1]
    /\ Goto(p, "delete_tags")
    /\ UNCHANGED <<waiters, registry, meta, opening, store, fallback, modules, assocs, nextId, writers, readers, op, seen, opCount>>

\* result = delete_one({"id": {"$eq": agent_id}}), then the associations of
\* the entity are found: find({"agent_id": {"$eq": agent_id}})
delete_one(p) ==
    /\ At(p, "delete_one")
    /\ LET r == DeleteOne(docs, [id |-> op[p].id])
       IN /\ docs' = r.coll
          /\ loc' = [loc EXCEPT ![p].deleted = r.deleted,
                                ![p].list = FindAssocsOf(store, assocs, op[p].id),
                                ![p].i = 1]
    /\ Goto(p, "delete_tags")
    /\ UNCHANGED <<waiters, registry, meta, opening, store, fallback, modules, assocs, nextId, writers, readers, op, seen, opCount>>

\* faulty variant: the cascade stops after the first association
delete_tags_once(p) ==
    /\ At(p, "delete_tags")
    /\ loc[p].i <= Len(loc[p].list)
    /\ assocs' = DeleteOne(assocs, [id |-> loc[p].list[loc[p].i].id]).coll
    /\ loc' = [loc EXCEPT ![p].i = Len(loc[p].list) + 1]
    /\ Goto(p, "delete_tags")
    /\ UNCHANGED <<waiters, registry, meta, opening, store, fallback, modules, docs, nextId, writers, readers, op, seen, opCount>>

\* one iteration of the cascade: delete_one({"id": {"$eq": doc["id"]}})
delete_tags(p) ==
    /\ At(p, "delete_tags")
    /\ loc[p].i <= Len(loc[p].list)
    /\ assocs' = DeleteOne(assocs, [id |-> loc[p].list[loc[p].i].id]).coll
    /\ loc' = [loc EXCEPT ![p].i = @ + 1]
    /\ Goto(p, "delete_tags")
    /\ UNCHANGED <<waiters, registry, meta, opening, store, fallback, modules, docs, nextId, writers, readers, op, seen, opCount>>

\* faulty variant: the deleted_count check is missing
delete_return_silent(p) ==
    /\ UNCHANGED <<waiters, registry, meta, opening, store, fallback, modules, docs, assocs, nextId, op, loc, opCount>>
    /\ At(p, "delete_tags")
    /\ loc[p].i > Len(loc[p].list)
    /\ ExitWriter(p)
    /\ Return(p, Ok(<<>>))

\* the scope is left, then `if result.deleted_count == 0: raise`
delete_return(p) ==
    /\ UNCHANGED <<waiters, registry, meta, opening, store, fallback, modules, docs, assocs, nextId, op, loc, opCount>>
    /\ At(p, "delete_tags")
    /\ loc[p].i > Len(loc[p].list)
    /\ ExitWriter(p)
    /\ Return(p, IF loc[p].deleted = <<>> THEN Raise("ItemNotFoundError") ELSE Ok(<<>>))

\* ------------------------------------------------------------- upsert_tag
upsert_tag(p) ==
    /\ nextId < MaxIds
    /\ \E id \in Ids, tag \in Tags, c \in CreationArgs :
          Call(p, [NoOp EXCEPT !.name = "upsert_tag", !.id = id, !.tag = tag,
                                  !.creation_utc = c], "upsert_read")
    /\ EnterWriter(p)
    /\ UNCHANGED <<waiters, registry, meta, opening, store, fallback, modules, docs, assocs, nextId, seen>>

\* faulty variant: the association is inserted without reading the entity first
upsert_read_unchecked(p) ==
    /\ At(p, "upsert_read")
    /\ Goto(p, "upsert_insert")
    /\ UNCHANGED <<waiters, registry, meta, opening, store, fallback, modules, docs, assocs, nextId, writers, readers, op, loc, seen, opCount>>

\* `agent = await self.read_agent(agent_id)` inside the writer scope: the
\* reader scope of the same lock is entered and left, ItemNotFoundError
\* propagates out of the writer scope; then `if tag_id in agent.tags: return False`
upsert_read(p) ==
    /\ UNCHANGED <<waiters, registry, meta, opening, store, fallback, modules, docs, assocs, nextId, op, opCount>>
    /\ At(p, "upsert_read")
    /\ CanAcquireReader(p)
    /\ LET document == FindOneById(docs, op[p].id)
       IN IF document = <<>>
          THEN /\ ExitWriter(p)
               /\ Return(p, Raise("ItemNotFoundError"))
               /\ UNCHANGED loc
          ELSE LET agent == Deserialize(store, document[1], assocs)
               IN IF op[p].tag \in Range(agent.tags)
                  THEN /\ ExitWriter(p)
                       /\ Return(p, Ok(<<FALSE>>))
                       /\ loc' = [loc EXCEPT ![p].entity = <<agent>>]
                  ELSE /\ Goto(p, "upsert_insert")
                       /\ loc' = [loc EXCEPT ![p].entity = <<agent>>]
                       /\ UNCHANGED <<writers, readers, seen>>

\* insert_one(document=association_document), find_one on the primary
\* collection, scope left, `if not agent_document: raise`
upsert_insert(p) ==
    /\ UNCHANGED <<waiters, registry, meta, opening, store, fallback, modules, docs, op, loc, opCount>>
    /\ At(p, "upsert_insert")
    /\ assocs' = InsertOne(assocs,
                     AssociationDocument(store, nextId + 1,
                                         OrElse(op[p].creation_utc, Now),
                                         op[p].id, op[p].tag))
    /\ nextId' = nextId + 1
    /\ ExitWriter(p)
    /\ Return(p, IF FindOneById(docs, op[p].id) = <<>>
                 THEN Raise("ItemNotFoundError") ELSE Ok(<<TRUE>>))

\* ------------------------------------------------------------- remove_tag
remove_tag(p) ==
    /\ \E id \in Ids, tag \in Tags :
          Call(p, [NoOp EXCEPT !.name = "remove_tag", !.id = id, !.tag = tag], "remove_delete")
    /\ EnterWriter(p)
    /\ UNCHANGED <<waiters, registry, meta, opening, store, fallback, modules, docs, assocs, nextId, seen>>

\* faulty variant: the deleted_count check of remove_tag is missing
remove_delete_unchecked(p) ==
    /\ UNCHANGED <<waiters, registry, meta, opening, store, fallback, modules, docs, nextId, op, opCount>>
    /\ At(p, "remove_delete")
    /\ LET r == DeleteOne(assocs, [entity_id |-> op[p].id, tag_id |-> op[p].tag])
       IN /\ assocs' = r.coll
          /\ loc' = [loc EXCEPT ![p].deleted = r.deleted]
          /\ ExitWriter(p)
          /\ Return(p, IF FindOneById(docs, op[p].id) = <<>>
                       THEN Raise("ItemNotFoundError") ELSE Ok(<<>>))

\* faulty variant: the raise for a missing association leaves the writer
\* scope held
remove_delete_held(p) ==
    /\ UNCHANGED <<waiters, registry, meta, opening, store, fallback, modules, docs, nextId, op, opCount>>
    /\ At(p, "remove_delete")
    /\ LET r == DeleteOne(assocs, [entity_id |-> op[p].id, tag_id |-> op[p].tag])
       IN /\ assocs' = r.coll
          /\ loc' = [loc EXCEPT ![p].deleted = r.deleted]
          /\ IF r.deleted = <<>>
             THEN /\ UNCHANGED <<writers, readers, seen>>
                  /\ Return(p, Raise("ItemNotFoundError"))
             ELSE /\ ExitWriter(p)
                  /\ Return(p, IF FindOneById(docs, op[p].id) = <<>>
                               THEN Raise("ItemNotFoundError") ELSE Ok(<<>>))

\* delete_one on the association collection; deleted_count == 0 raises;
\* otherwise find_one on the primary collection, scope left,
\* `if not agent_document: raise`
remove_delete(p) ==
    /\ UNCHANGED <<waiters, registry, meta, opening, store, fallback, modules, docs, nextId, op, opCount>>
    /\ At(p, "remove_delete")
    /\ LET r == DeleteOne(assocs, [entity_id |-> op[p].id, tag_id |-> op[p].tag])
       IN /\ assocs' = r.coll
          /\ loc' = [loc EXCEPT ![p].deleted = r.deleted]
          /\ ExitWriter(p)
          /\ Return(p, IF r.deleted = <<>> \/ FindOneById(docs, op[p].id) = <<>>
                       THEN Raise("ItemNotFoundError") ELSE Ok(<<>>))

\* ------------------------------------------------------------ update_agent
update_agent(p) ==
    /\ store = "agents"
    /\ \E id \in Ids, params \in AgentUpdateParams :
          Call(p, [NoOp EXCEPT !.name = "update", !.id = id, !.params = params],
               "update_agent_find")
    /\ EnterWriter(p)
    /\ UNCHANGED <<waiters, registry, meta, opening, store, fallback, modules, docs, assocs, nextId, seen>>

\* find_one, `if not agent_document: raise ItemNotFoundError`
update_agent_find(p) ==
    /\ UNCHANGED <<waiters, registry, meta, opening, store, fallback, modules, docs, assocs, nextId, op, loc, opCount>>
    /\ At(p, "update_agent_find")
    /\ IF FindOneById(docs, op[p].id) = <<>>
       THEN /\ ExitWriter(p)
            /\ Return(p, Raise("ItemNotFoundError"))
       ELSE /\ Goto(p, "update_agent_update")
            /\ UNCHANGED <<writers, readers, seen>>

\* update_one(filters, params=cast(_AgentDocument, params)), scope left
update_agent_update(p) ==
    /\ UNCHANGED <<waiters, registry, meta, opening, store, fallback, modules, assocs, nextId, op, opCount>>
    /\ At(p, "update_agent_update")
    /\ LET r == UpdateOne(docs, op[p].id, op[p].params)
       IN /\ docs' = r.coll
          /\ loc' = [loc EXCEPT ![p].doc = r.updated]
    /\ ExitWriter(p)
    /\ Goto(p, "return_updated")

\* -------------------------------------------------------- update_guideline
update_guideline(p) ==
    /\ store = "guidelines"
    /\ \E id \in Ids, params \in GuidelineUpdateParams :
          Call(p, [NoOp EXCEPT !.name = "update", !.id = id, !.params = params],
               "update_guideline_update")
    /\ EnterWriter(p)
    /\ UNCHANGED <<waiters, registry, meta, opening, store, fallback, modules, docs, assocs, nextId, seen>>

\* faulty variant: the document is rebuilt whole, absent keys taking their defaults
GuidelineUpdateDocument_defaults(params) ==
    [f \in {"condition", "action", "enabled"} |->
        IF f \in DOMAIN params THEN params[f]
        ELSE [condition |-> "c1", action |-> "a1", enabled |-> TRUE][f]]

\* the document built from the params: condition, action and enabled only
GuidelineUpdateDocument(params) ==
    [f \in (DOMAIN params) \cap {"condition", "action", "enabled"} |-> params[f]]

\* update_one(filters, params=guideline_document), scope left
update_guideline_update(p) ==
    /\ UNCHANGED <<waiters, registry, meta, opening, store, fallback, modules, assocs, nextId, op, opCount>>
    /\ At(p, "update_guideline_update")
    /\ LET r == UpdateOne(docs, op[p].id, GuidelineUpdateDocument(op[p].params))
       IN /\ docs' = r.coll
          /\ loc' = [loc EXCEPT ![p].doc = r.updated]
    /\ ExitWriter(p)
    /\ Goto(p, "return_updated")

\* what a failed `assert result.updated_document` gives: AssertionError, or,
\* when assertions are compiled out, the TypeError of subscripting None
AssertFailures == {"AssertionError", "TypeError"}

\* `assert result.updated_document`, then the updated document is deserialized
return_updated(p) ==
    /\ At(p, "return_updated")
    /\ IF loc[p].doc = <<>>
       THEN \E e \in AssertFailures : Return(p, Raise(e))
       ELSE Return(p, Ok(<<Deserialize(store, loc[p].doc[1], assocs)>>))
    /\ UNCHANGED <<waiters, registry, meta, opening, store, fallback, modules, docs, assocs, nextId, writers, readers, op, loc, seen, opCount>>

\* ------------------------------------------- add_metadata / remove_metadata
\* faulty variant: the read-modify-write runs in the reader scope
add_metadata_reader(p) ==
    /\ store = "guidelines"
    /\ \E id \in Ids, m \in MetadataArgs :
          Call(p, [NoOp EXCEPT !.name = "add_metadata", !.id = id, !.params = m],
               "add_metadata_find")
    /\ EnterReader(p)
    /\ UNCHANGED <<waiters, registry, meta, opening, store, fallback, modules, docs, assocs, nextId, seen>>

add_metadata(p) ==
    /\ store = "guidelines"
    /\ \E id \in Ids, m \in MetadataArgs :
          Call(p, [NoOp EXCEPT !.name = "add_metadata", !.id = id, !.params = m],
               "add_metadata_find")
    /\ EnterWriter(p)
    /\ UNCHANGED <<waiters, registry, meta, opening, store, fallback, modules, docs, assocs, nextId, seen>>

\* faulty variant: the supplied mapping replaces the stored one
add_metadata_find_replace(p) ==
    /\ UNCHANGED <<waiters, registry, meta, opening, store, fallback, modules, docs, assocs, nextId, op, opCount>>
    /\ At(p, "add_metadata_find")
    /\ LET document == FindOneById(docs, op[p].id)
       IN IF document = <<>>
          THEN /\ ExitWriter(p)
               /\ Return(p, Raise("ItemNotFoundError"))
               /\ UNCHANGED loc
          ELSE /\ Goto(p, "metadata_update")
               /\ loc' = [loc EXCEPT ![p].map = op[p].params]
               /\ UNCHANGED <<writers, readers, seen>>

\* find_one, then updated_metadata = {**document["metadata"], **metadata}
add_metadata_find(p) ==
    /\ UNCHANGED <<waiters, registry, meta, opening, store, fallback, modules, docs, assocs, nextId, op, opCount>>
    /\ At(p, "add_metadata_find")
    /\ LET document == FindOneById(docs, op[p].id)
       IN IF document = <<>>
          THEN /\ ExitWriter(p)
               /\ Return(p, Raise("ItemNotFoundError"))
               /\ UNCHANGED loc
          ELSE /\ Goto(p, "metadata_update")
               /\ loc' = [loc EXCEPT ![p].map = Override(document[1].metadata, op[p].params)]
               /\ UNCHANGED <<writers, readers, seen>>

remove_metadata(p) ==
    /\ store = "guidelines"
    /\ \E id \in Ids, keys \in KeyArgs :
          Call(p, [NoOp EXCEPT !.name = "remove_metadata", !.id = id, !.keys = keys],
               "remove_metadata_find")
    /\ EnterWriter(p)
    /\ UNCHANGED <<waiters, registry, meta, opening, store, fallback, modules, docs, assocs, nextId, seen>>

\* find_one, then updated_metadata = the items whose key is not in keys
remove_metadata_find(p) ==
    /\ UNCHANGED <<waiters, registry, meta, opening, store, fallback, modules, docs, assocs, nextId, op, opCount>>
    /\ At(p, "remove_metadata_find")
    /\ LET document == FindOneById(docs, op[p].id)
       IN IF document = <<>>
          THEN /\ ExitWriter(p)
               /\ Return(p, Raise("ItemNotFoundError"))
               /\ UNCHANGED loc
          ELSE /\ Goto(p, "metadata_update")
               /\ loc' = [loc EXCEPT ![p].map = Without(document[1].metadata, op[p].keys)]
               /\ UNCHANGED <<writers, readers, seen>>

\* update_one(filters, params={"metadata": updated_metadata}), scope left
metadata_update(p) ==
    /\ UNCHANGED <<waiters, registry, meta, opening, store, fallback, modules, assocs, nextId, op, opCount>>
    /\ At(p, "metadata_update")
    /\ LET r == UpdateOne(docs, op[p].id, [metadata |-> loc[p].map])
       IN /\ docs' = r.coll
          /\ loc' = [loc EXCEPT ![p].doc = r.updated]
    /\ ExitWriter(p)
    /\ Goto(p, "return_updated")

\* ---------------------------------------------- list_agents / list_guidelines
\* the ids named by the association documents whose tag is in `tags`
\* faulty variant: an association must carry every tag of the filter
IdsTagged_every(as, tags) ==
    {id \in {d.entity_id : d \in Range(LoadAll("guidelines", as))} :
        \A t \in Range(tags) :
            \E x \in Range(LoadAll("guidelines", as)) : x.entity_id = id /\ x.tag_id = t}

IdsTagged(as, tags) ==
    {d.entity_id : d \in {x \in Range(LoadAll("guidelines", as)) : x.tag_id \in Range(tags)}}
\* the ids named by any association document
IdsWithTags(as) == {d.entity_id : d \in Range(LoadAll("guidelines", as))}

\* faulty variant: `if tags:` in place of `if tags is not None:`
GuidelineFilters_falsy(as, tags) ==
    IF tags = NoTagsArg \/ Len(tags) = 0 THEN [mode |-> "all", ids |-> {}]
    ELSE IF IdsTagged(as, tags) = {} THEN [mode |-> "none", ids |-> {}]
    ELSE [mode |-> "eq", ids |-> IdsTagged(as, tags)]

\* list_guidelines: the filters computed from the tags argument; "none" is
\* the early `return []`
GuidelineFilters(as, tags) ==
    IF tags = NoTagsArg THEN [mode |-> "all", ids |-> {}]
    ELSE IF Len(tags) = 0
    THEN (IF IdsWithTags(as) # {} THEN [mode |-> "ne", ids |-> IdsWithTags(as)]
          ELSE [mode |-> "all", ids |-> {}])
    ELSE IF IdsTagged(as, tags) = {} THEN [mode |-> "none", ids |-> {}]
    ELSE [mode |-> "eq", ids |-> IdsTagged(as, tags)]

\* find(filters) on the primary collection
Matches(f, d) ==
    CASE f.mode = "all" -> TRUE
      [] f.mode = "ne" -> d.id \notin f.ids
      [] f.mode = "eq" -> d.id \in f.ids
      [] f.mode = "none" -> FALSE

RECURSIVE DeserializeAll(_, _, _)
DeserializeAll(s, ds, as) ==
    IF ds = <<>> THEN <<>>
    ELSE <<Deserialize(s, Head(ds), as)>> \o DeserializeAll(s, Tail(ds), as)

list_agents(p) ==
    /\ store = "agents"
    /\ Call(p, [NoOp EXCEPT !.name = "list"], "list_find")
    /\ EnterReader(p)
    /\ UNCHANGED <<waiters, registry, meta, opening, store, fallback, modules, docs, assocs, nextId, seen>>

list_guidelines(p) ==
    /\ store = "guidelines"
    /\ \E tags \in TagFilters : Call(p, [NoOp EXCEPT !.name = "list", !.tags = tags], "list_find")
    /\ EnterReader(p)
    /\ UNCHANGED <<waiters, registry, meta, opening, store, fallback, modules, docs, assocs, nextId, seen>>

\* list_agents has no filter: find(filters={})
ListFilters(s, as, tags) ==
    IF s = "agents" THEN [mode |-> "all", ids |-> {}] ELSE GuidelineFilters(as, tags)

\* the filters, then find(filters) on the primary collection
list_find(p) ==
    /\ At(p, "list_find")
    /\ LET f == ListFilters(store, assocs, op[p].tags)
       IN loc' = [loc EXCEPT ![p].filter = f,
                             ![p].list = SelectSeq(docs, LAMBDA d : Matches(f, d))]
    /\ Goto(p, "list_deserialize")
    /\ UNCHANGED <<waiters, registry, meta, opening, store, fallback, modules, docs, assocs, nextId, writers, readers, op, seen, opCount>>

\* `[await self._deserialize(d) for d in ...]`, then the reader scope is left
list_deserialize(p) ==
    /\ At(p, "list_deserialize")
    /\ ExitReader(p)
    /\ Return(p, Ok(DeserializeAll(store, loc[p].list, assocs)))
    /\ UNCHANGED <<waiters, registry, meta, opening, store, fallback, modules, docs, assocs, nextId, op, loc, seen, opCount>>

\* -------------------------------------------------------------------- Next
Next ==
    \/ \E p \in Procs : create_agent(p)
    \/ \E p \in Procs : create_agent_insert(p)
    \/ \E p \in Procs : create_guideline(p)
    \/ \E p \in Procs : create_guideline_insert(p)
    \/ \E p \in Procs : create_tags(p)
    \/ \E p \in Procs : create_return(p)
    \/ \E p \in Procs : read_agent(p)
    \/ \E p \in Procs : read_find(p)
    \/ \E p \in Procs : read_deserialize(p)
    \/ \E p \in Procs : delete_agent(p)
    \/ \E p \in Procs : delete_one(p)
    \/ \E p \in Procs : delete_tags(p)
    \/ \E p \in Procs : delete_return(p)
    \/ \E p \in Procs : upsert_tag(p)
    \/ \E p \in Procs : upsert_read(p)
    \/ \E p \in Procs : upsert_insert(p)
    \/ \E p \in Procs : remove_tag(p)
    \/ \E p \in Procs : remove_delete(p)
    \/ \E p \in Procs : update_agent(p)
    \/ \E p \in Procs : update_agent_find(p)
    \/ \E p \in Procs : update_agent_update(p)
    \/ \E p \in Procs : update_guideline(p)
    \/ \E p \in Procs : update_guideline_update(p)
    \/ \E p \in Procs : return_updated(p)
    \/ \E p \in Procs : add_metadata(p)
    \/ \E p \in Procs : add_metadata_find(p)
    \/ \E p \in Procs : remove_metadata(p)
    \/ \E p \in Procs : remove_metadata_find(p)
    \/ \E p \in Procs : metadata_update(p)
    \/ \E p \in Procs : list_agents(p)
    \/ \E p \in Procs : list_guidelines(p)
    \/ \E p \in Procs : list_find(p)
    \/ \E p \in Procs : list_deserialize(p)
    \/ \E p \in Procs : Finish(p)

Spec == Init /\ [][Next]_vars

\* ------------------------------------------------------------------ claims
\* caller p takes a step of the method it is running
Stepped(p) == pc'[p] # pc[p] \/ loc'[p] # loc[p]

Completed(p, name) == pc[p] = "done" /\ op[p].name = name

\* what list returns for a tags argument when it runs alone
ListResult(s, ds, as, tags) ==
    DeserializeAll(s, SelectSeq(ds, LAMBDA d : Matches(ListFilters(s, as, tags), d)), as)

\* the association records of the pair (id, tag)
PairRecords(as, id, tag) == {i \in 1..Len(as) : as[i].entity_id = id /\ as[i].tag_id = tag}

ReadIsAtomic ==
    \A p \in Procs : Completed(p, "read") => result[p].value \in seen[p]

\* C3: when delete of an existing entity completes, no association record
\* names the entity and list returns it under no tags argument.
DeleteCascades ==
    \A p \in Procs :
        (Completed(p, "delete") /\ result[p].kind = "ok") =>
            /\ \A i \in 1..Len(assocs) : assocs[i].entity_id # op[p].id
            /\ \A tags \in TagArgs \cup TagFilters :
                  \A i \in DOMAIN ListResult(store, docs, assocs, tags) :
                      ListResult(store, docs, assocs, tags)[i].id # op[p].id

\* a delete of an entity that had two association records has completed
DeleteCascadesWitness ==
    \E p \in Procs :
        Completed(p, "delete") /\ result[p].kind = "ok" /\ Len(loc[p].list) >= 2

\* C4: whenever no caller holds the writer scope, every association record
\* names an entity that is in the primary collection.
NoOrphanAssociation ==
    writers = {} =>
        \A i \in 1..Len(assocs) : \E j \in 1..Len(docs) : docs[j].id = assocs[i].entity_id

\* an entity was deleted while another entity keeps its association records
NoOrphanWitness ==
    /\ writers = {}
    /\ assocs # <<>>
    /\ \E p \in Procs : Completed(p, "delete") /\ result[p].kind = "ok"

\* C5: when upsert_tag returns (True or False), the pair has exactly one
\* association record.
UpsertTagLeavesOneRecord ==
    \A p \in Procs :
        (Completed(p, "upsert_tag") /\ result[p].kind = "ok") =>
            Cardinality(PairRecords(assocs, op[p].id, op[p].tag)) = 1

\* C6: a read-modify-write writes what it computed from the record as it is
\* stored at the moment of the write: no other write came between its read
\* and its write.
NoLostUpdate ==
    \A p \in Procs :
        LET cur == FindOneById(docs, op[p].id)
        IN /\ pc[p] = "metadata_update" =>
                /\ cur # <<>>
                /\ loc[p].map = IF op[p].name = "add_metadata"
                                THEN Override(cur[1].metadata, op[p].params)
                                ELSE Without(cur[1].metadata, op[p].keys)
           /\ pc[p] = "update_agent_update" => cur # <<>>

\* two add_metadata calls with different keys overlapped and the record
\* holds both keys
NoLostUpdateWitness ==
    \E p \in Procs : \E q \in Procs \ {p} :
        /\ Completed(p, "add_metadata") /\ result[p].kind = "ok"
        /\ pc[q] = "return_updated" /\ op[q].name = "add_metadata"
        /\ op[q].id = op[p].id /\ op[q].params # op[p].params
        /\ DOMAIN FindOneById(docs, op[p].id)[1].metadata = MetaKeys

\* C7: an update that found no record for its id raises ItemNotFoundError.
UpdateAbsentRaisesNotFound ==
    \A p \in Procs :
        (Completed(p, "update") /\ loc[p].doc = <<>>) =>
            result[p].kind = "ItemNotFoundError"

\* C8: every step of an update leaves the association collection, every
\* other record, and every field of the target record that the params do
\* not name, unchanged.
UpdateFrame ==
    [][\A p \in Procs :
          (op'[p].name = "update" /\ Stepped(p)) =>
              /\ assocs' = assocs
              /\ Len(docs') = Len(docs)
              /\ \A i \in 1..Len(docs) :
                    IF docs[i].id # op'[p].id THEN docs'[i] = docs[i]
                    ELSE /\ DOMAIN docs'[i] = DOMAIN docs[i]
                         /\ \A f \in (DOMAIN docs[i]) \ (DOMAIN op'[p].params) :
                               docs'[i][f] = docs[i][f]]_vars

\* an update naming one key has completed in a store with another record
\* and an association record
UpdateFrameWitness ==
    \E p \in Procs :
        /\ Completed(p, "update") /\ result[p].kind = "ok"
        /\ Cardinality(DOMAIN op[p].params) = 1
        /\ Len(docs) >= 2 /\ assocs # <<>>

\* C9: a delete whose delete_one removed nothing changes neither collection
\* and ends with ItemNotFoundError.
DeleteAbsentRaisesNotFound ==
    [][\A p \in Procs :
          (op'[p].name = "delete" /\ Stepped(p) /\ loc'[p].deleted = <<>>) =>
              /\ docs' = docs
              /\ assocs' = assocs
              /\ pc'[p] = "done" => result'[p].kind = "ItemNotFoundError"]_vars

\* a delete of an absent id has completed in a store that holds records
DeleteAbsentWitness ==
    \E p \in Procs :
        /\ Completed(p, "delete") /\ result[p].kind = "ItemNotFoundError"
        /\ docs # <<>> /\ assocs # <<>>

\* C10: an upsert_tag whose entity id is not in the primary collection
\* changes neither collection and ends with ItemNotFoundError.
UpsertTagAbsentRaisesNotFound ==
    [][\A p \in Procs :
          (op'[p].name = "upsert_tag" /\ Stepped(p)
              /\ FindOneById(docs, op'[p].id) = <<>>) =>
              /\ docs' = docs
              /\ assocs' = assocs
              /\ pc'[p] = "done" => result'[p].kind = "ItemNotFoundError"]_vars

\* an upsert_tag on an absent id has completed in a store that holds records
UpsertTagAbsentWitness ==
    \E p \in Procs :
        /\ Completed(p, "upsert_tag") /\ result[p].kind = "ItemNotFoundError"
        /\ docs # <<>> /\ assocs # <<>>

\* C11: a remove_tag whose (entity id, tag id) pair has no association
\* record changes neither collection and ends with ItemNotFoundError.
RemoveTagAbsentRaisesNotFound ==
    [][\A p \in Procs :
          (op'[p].name = "remove_tag" /\ Stepped(p)
              /\ PairRecords(assocs, op'[p].id, op'[p].tag) = {}) =>
              /\ docs' = docs
              /\ assocs' = assocs
              /\ pc'[p] = "done" => result'[p].kind = "ItemNotFoundError"]_vars

\* a remove_tag of a tag that a stored, tagged entity does not have has
\* completed
RemoveTagAbsentWitness ==
    \E p \in Procs :
        /\ Completed(p, "remove_tag") /\ result[p].kind = "ItemNotFoundError"
        /\ FindOneById(docs, op[p].id) # <<>>
        /\ PairRecords(assocs, op[p].id, op[p].tag) = {}
        /\ \E i \in 1..Len(assocs) : assocs[i].entity_id = op[p].id

\* ------------------------------------------------- create, then read by id
\* One caller creates an entity with any combination of supplied and omitted
\* optional arguments and reads it by id at once.
AnyAgentArgs ==
    [name : {"n1"}, description : {"None", "d1"},
     max_engine_iterations : {<<>>, <<0>>, <<3>>},
     composition_mode : {"None", "strict_utterance"}]

AnyGuidelineArgs ==
    [condition : {"c1"}, action : {"a1"},
     metadata : {EmptyMap} \cup MetadataArgs, enabled : {TRUE, FALSE}]

AnyCreationArgs == {"None", "t0"}

create_any_agent(p) ==
    /\ store = "agents"
    /\ \E a \in AnyAgentArgs, tags \in TagArgs, c \in AnyCreationArgs :
          /\ nextId + IdsNeeded(tags) <= MaxIds
          /\ Call(p, [NoOp EXCEPT !.name = "create", !.args = a, !.tags = tags,
                                   !.creation_utc = c], "create_agent_insert")
    /\ EnterWriter(p)
    /\ UNCHANGED <<waiters, registry, meta, opening, store, fallback, modules, docs, assocs, nextId, seen>>

create_any_guideline(p) ==
    /\ store = "guidelines"
    /\ \E a \in AnyGuidelineArgs, tags \in TagArgs, c \in AnyCreationArgs :
          /\ nextId + IdsNeeded(tags) <= MaxIds
          /\ Call(p, [NoOp EXCEPT !.name = "create", !.args = a, !.tags = tags,
                                   !.creation_utc = c], "create_guideline_insert")
    /\ EnterWriter(p)
    /\ UNCHANGED <<waiters, registry, meta, opening, store, fallback, modules, docs, assocs, nextId, seen>>

\* the caller takes the entity create returned and calls read with its id;
\* loc[p].entity keeps the created entity
read_created(p) ==
    /\ Completed(p, "create")
    /\ opCount < MaxOps
    /\ opCount' = opCount + 1
    /\ op' = [op EXCEPT ![p] = [NoOp EXCEPT !.name = "read", !.id = result[p].value[1].id]]
    /\ loc' = [loc EXCEPT ![p] = [NoLoc EXCEPT !.entity = result[p].value]]
    /\ result' = [result EXCEPT ![p] = NoResult]
    /\ pc' = [pc EXCEPT ![p] = "read_find"]
    /\ EnterReader(p)
    /\ seen' = [seen EXCEPT ![p] = {View(store, docs, assocs, op'[p].id)}]
    /\ UNCHANGED <<waiters, registry, meta, opening, store, fallback, modules, docs, assocs, nextId>>

CreateReadNext ==
    \/ create_any_agent(1)
    \/ create_agent_insert(1)
    \/ create_any_guideline(1)
    \/ create_guideline_insert(1)
    \/ create_tags(1)
    \/ create_return(1)
    \/ read_created(1)
    \/ read_find(1)
    \/ read_deserialize(1)

CreateReadSpec == Init /\ [][CreateReadNext]_vars

\* C12: a read by id that follows a create at once returns the entity
\* create returned, field for field, tags included.
CreateThenReadEqual ==
    \A p \in Procs :
        (Completed(p, "read") /\ loc[p].entity # <<>>) =>
            result[p] = Ok(loc[p].entity)

\* an agent created with every optional argument supplied and two tags has
\* been read back
CreateThenReadWitness ==
    \E p \in Procs :
        /\ Completed(p, "read") /\ loc[p].entity # <<>> /\ store = "agents"
        /\ result[p].kind = "ok"
        /\ result[p].value[1].description = "d1"
        /\ result[p].value[1].composition_mode = "strict_utterance"
        /\ result[p].value[1].max_engine_iterations = 3
        /\ result[p].value[1].creation_utc = "t0"
        /\ Len(result[p].value[1].tags) = 2

\* ---------------------------------------------------------- list_guidelines
IdsOf(seq) == [i \in 1..Len(seq) |-> seq[i].id]

\* the stored guidelines, in stored order, that no association names
Untagged(ds, as) ==
    SelectSeq(ds, LAMBDA d : \A i \in 1..Len(as) : as[i].entity_id # d.id)

TaggedWithAny(ds, as, tags) ==
    SelectSeq(ds, LAMBDA d :
        \E i \in 1..Len(as) : as[i].entity_id = d.id /\ as[i].tag_id \in Range(tags))

\* C13: list_guidelines with tags=None returns every stored guideline and
\* with tags=[] returns exactly the guidelines that have no association
\* record.
ListNoneVersusEmpty ==
    \A p \in Procs :
        (Completed(p, "list") /\ store = "guidelines" /\ result[p].kind = "ok") =>
            /\ op[p].tags = NoTagsArg => IdsOf(result[p].value) = IdsOf(docs)
            /\ op[p].tags = <<>> => IdsOf(result[p].value) = IdsOf(Untagged(docs, assocs))

\* list(tags=[]) returned one of two stored guidelines, the other being
\* tagged
ListEmptyWitness ==
    \E p \in Procs :
        /\ Completed(p, "list") /\ store = "guidelines" /\ op[p].tags = <<>>
        /\ Len(docs) = 2 /\ Len(result[p].value) = 1

\* C14: list_guidelines with a non-empty tags argument returns exactly the
\* stored guidelines that have an association record whose tag is in the
\* argument, each once, and the empty sequence when there is none.
ListByTags ==
    \A p \in Procs :
        (Completed(p, "list") /\ store = "guidelines" /\ result[p].kind = "ok"
            /\ op[p].tags # NoTagsArg /\ op[p].tags # <<>>) =>
            /\ IdsOf(result[p].value) = IdsOf(TaggedWithAny(docs, assocs, op[p].tags))
            /\ \A i, j \in 1..Len(result[p].value) :
                  result[p].value[i].id = result[p].value[j].id => i = j

\* a list under two tags returned a guideline that has several matching
\* association records, once, and left out an untagged one
ListByTagsWitness ==
    \E p \in Procs :
        /\ Completed(p, "list") /\ store = "guidelines" /\ Len(op[p].tags) = 2
        /\ Len(docs) = 2 /\ Len(result[p].value) = 1
        /\ Cardinality({i \in 1..Len(assocs) :
                           assocs[i].entity_id = result[p].value[1].id}) >= 2

\* ------------------------------------------------------------ reader scope
\* caller p is free to make a call
CanCall(p) ==
    /\ At(p, "idle")
    /\ \A q \in Procs : q < p => pc[q] # "idle"
    /\ opCount < MaxOps

\* C20: while only readers hold the lock (no writer), a read by another
\* caller is admitted to the reader scope at once.
ReadersShare ==
    \A p \in Procs :
        (writers = {} /\ readers # {} /\ CanCall(p)) =>
            /\ ENABLED read_agent(p)
            /\ ENABLED (list_agents(p) \/ list_guidelines(p))

\* two callers hold the reader scope at the same time
ReadersShareWitness ==
    /\ writers = {}
    /\ Cardinality(readers) >= 2

\* ------------------------------------------------------ opening the store
\* __aenter__ of a typed store: the DocumentStoreMigrationHelper guard, then
\* get_or_create_collection for the primary and the association collection
\* with the store's loaders.  docs, assocs and meta are what the database
\* holds; opening.stored keeps what it held before the open.

MaxStored == 2

\* schema versions a database may carry; "0.0.1" has no converter in either
\* store and "0.5.0" is newer than both stores
KnownVersions == {"0.0.1", "0.1.0", "0.2.0", "0.3.0", "0.4.0", "0.5.0"}

\* Version.from_string
from_string(v) ==
    CASE v = "0.0.1" -> <<0, 0, 1>>
      [] v = "0.1.0" -> <<0, 1, 0>>
      [] v = "0.2.0" -> <<0, 2, 0>>
      [] v = "0.3.0" -> <<0, 3, 0>>
      [] v = "0.4.0" -> <<0, 4, 0>>
      [] v = "0.5.0" -> <<0, 5, 0>>

\* Version.__lt__: precedence of semantic versions
Less(v, w) ==
    LET a == from_string(v)
        b == from_string(w)
    IN \/ a[1] < b[1]
       \/ a[1] = b[1] /\ a[2] < b[2]
       \/ a[1] = b[1] /\ a[2] = b[2] /\ a[3] < b[3]

\* faulty variant: any difference of versions counts as older data
MigrationCheck_unordered(last_seen, current, allow_migration) ==
    IF last_seen = current THEN "proceed"
    ELSE IF allow_migration THEN "migrate" ELSE "MigrationRequired"

\* the guard's decision on entry
MigrationCheck(last_seen, current, allow_migration) ==
    IF last_seen = current THEN "proceed"
    ELSE IF Less(last_seen, current)
    THEN (IF allow_migration THEN "migrate" ELSE "MigrationRequired")
    ELSE "ServerOutdated"

\* outcome of a converter: the converted document, or the exception raised
Converted(doc) == [kind |-> "doc", doc |-> doc]
Raised == [kind |-> "raise", doc |-> <<>>]
Unregistered == [kind |-> "gap", doc |-> <<>>]

\* AgentDocumentStore._document_loader: both converters are stubs
agent_v0_1_0_to_v_0_2_0(doc) == Raised

\* faulty variant: the converter rewrites the version instead of raising
agent_v0_2_0_to_v_0_3_0_rewrite(doc) == Converted([doc EXCEPT !.version = "0.3.0"])

agent_v0_2_0_to_v_0_3_0(doc) == Raised

\* GuidelineDocumentStore._document_loader
guideline_document_converter_0_1_0_to_0_2_0(doc) ==
    Converted([id |-> doc.id, version |-> "0.2.0", creation_utc |-> doc.creation_utc,
               guideline_set |-> doc.guideline_set, condition |-> doc.condition,
               action |-> doc.action, enabled |-> TRUE])

guideline_v0_2_0_to_v_0_3_0(doc) == Raised

\* faulty variant: enabled takes its default
guideline_v0_3_0_to_v0_4_0_enabled(doc) ==
    Converted([id |-> doc.id, version |-> "0.4.0", creation_utc |-> doc.creation_utc,
               condition |-> doc.condition, action |-> doc.action,
               enabled |-> TRUE, metadata |-> EmptyMap])

guideline_v0_3_0_to_v0_4_0(doc) ==
    Converted([id |-> doc.id, version |-> "0.4.0", creation_utc |-> doc.creation_utc,
               condition |-> doc.condition, action |-> doc.action,
               enabled |-> doc.enabled, metadata |-> EmptyMap])

\* the converter registered for the document's version, applied
Convert(s, doc) ==
    IF s = "agents"
    THEN CASE doc.version = "0.1.0" -> agent_v0_1_0_to_v_0_2_0(doc)
           [] doc.version = "0.2.0" -> agent_v0_2_0_to_v_0_3_0(doc)
           [] OTHER -> Unregistered
    ELSE CASE doc.version = "0.1.0" -> guideline_document_converter_0_1_0_to_0_2_0(doc)
           [] doc.version = "0.2.0" -> guideline_v0_2_0_to_v_0_3_0(doc)
           [] doc.version = "0.3.0" -> guideline_v0_3_0_to_v0_4_0(doc)
           [] OTHER -> Unregistered

\* DocumentMigrationHelper.migrate: converters applied until the document
\* carries the store's version; a chain is no longer than the known versions
RECURSIVE migrate(_, _, _)
migrate(s, doc, steps) ==
    IF doc.version = VERSION(s) THEN Converted(doc)
    ELSE IF steps = 0 THEN Unregistered
    ELSE LET r == Convert(s, doc)
         IN IF r.kind = "doc" THEN migrate(s, r.doc, steps - 1) ELSE r

_document_loader(s, doc) == migrate(s, doc, Cardinality(KnownVersions))

\* what a database holds: per stored entity, the version of the code that
\* wrote it (never newer than the last-seen version), its enabled flag and
\* whether it has a tag association, written by the same code
StoredItems(s, last_seen) ==
    {it \in [version : {v \in KnownVersions : v = last_seen \/ Less(v, last_seen)},
             enabled : BOOLEAN, tagged : BOOLEAN] :
        it.enabled \/ (s = "guidelines" /\ it.version \in {"0.3.0", "0.4.0"})}

StoredDocument(s, id, it) ==
    IF s = "agents"
    THEN [_serialize_agent(NewAgent(id, CHOOSE a \in AgentArgs : TRUE, "None", <<>>))
             EXCEPT !.version = it.version]
    ELSE IF Less(it.version, "0.2.0")
    THEN [id |-> id, version |-> it.version, creation_utc |-> isoformat(Now),
          guideline_set |-> "g1", condition |-> "c1", action |-> "a1"]
    ELSE IF it.version = "0.2.0"
    THEN [id |-> id, version |-> it.version, creation_utc |-> isoformat(Now),
          guideline_set |-> "g1", condition |-> "c1", action |-> "a1",
          enabled |-> it.enabled]
    ELSE IF it.version = "0.3.0"
    THEN [id |-> id, version |-> it.version, creation_utc |-> isoformat(Now),
          condition |-> "c1", action |-> "a1", enabled |-> it.enabled]
    ELSE [id |-> id, version |-> it.version, creation_utc |-> isoformat(Now),
          condition |-> "c1", action |-> "a1", enabled |-> it.enabled,
          metadata |-> EmptyMap]

StoredDocuments(s, items) == [i \in 1..Len(items) |-> StoredDocument(s, i, items[i])]

StoredAssociations(s, items) ==
    LET tagged == SelectSeq([i \in 1..Len(items) |-> [entity |-> i, item |-> items[i]]],
                            LAMBDA x : x.item.tagged)
    IN [j \in 1..Len(tagged) |->
           [AssociationDocument(s, Len(items) + j, Now, tagged[j].entity, "t1")
               EXCEPT !.version = tagged[j].item.version]]

OpenInit ==
    /\ store \in Stores
    /\ meta \in KnownVersions
    /\ \E n \in 0..MaxStored : \E items \in [1..n -> StoredItems(store, meta)] :
          /\ docs = StoredDocuments(store, items)
          /\ assocs = StoredAssociations(store, items)
    /\ \E allow_migration \in BOOLEAN :
          opening = [pc |-> "start", allow |-> allow_migration, outcome |-> "none",
                     required |-> FALSE, i |-> 0, buffer |-> <<>>, handed |-> {},
                     stored |-> [docs |-> docs, assocs |-> assocs, meta |-> meta]]
    /\ nextId = Len(docs) + Len(assocs)
    /\ waiters = <<>>
    /\ fallback = NoFallback
    /\ modules = NoModules
    /\ registry = NoRegistry
    /\ writers = {}
    /\ readers = {}
    /\ pc = [p \in Procs |-> "idle"]
    /\ op = [p \in Procs |-> NoOp]
    /\ loc = [p \in Procs |-> NoLoc]
    /\ result = [p \in Procs |-> NoResult]
    /\ seen = [p \in Procs |-> {}]
    /\ opCount = 0

\* the store's methods are not called before the open has ended
callers == <<waiters, registry, nextId, writers, readers, pc, op, loc, result, seen, opCount>>

Fail(condition) ==
    opening' = [opening EXCEPT !.pc = "end", !.outcome = condition, !.buffer = <<>>]

\* faulty variant: the guard is entered with migration always allowed
open_enter_permissive ==
    /\ opening.pc = "start"
    /\ LET check == MigrationCheck(meta, VERSION(store), TRUE)
       IN IF check \in {"MigrationRequired", "ServerOutdated"} THEN Fail(check)
          ELSE opening' = [opening EXCEPT !.pc = "primary", !.i = 1,
                                          !.required = (check = "migrate")]
    /\ UNCHANGED <<meta, store, fallback, modules, docs, assocs, callers>>

\* async with DocumentStoreMigrationHelper(store, database, allow_migration)
open_enter ==
    /\ opening.pc = "start"
    /\ LET check == MigrationCheck(meta, VERSION(store), opening.allow)
       IN IF check \in {"MigrationRequired", "ServerOutdated"} THEN Fail(check)
          ELSE opening' = [opening EXCEPT !.pc = "primary", !.i = 1,
                                          !.required = (check = "migrate")]
    /\ UNCHANGED <<meta, store, fallback, modules, docs, assocs, callers>>

\* get_or_create_collection(primary, document_loader) during a migration
\* pass: the next stored record goes through the loader; the converted
\* records are buffered and a raising or missing converter ends the open
open_load_document ==
    /\ opening.pc = "primary" /\ opening.required
    /\ opening.i <= Len(docs)
    /\ LET r == _document_loader(store, docs[opening.i])
       IN IF r.kind = "doc"
          THEN opening' = [opening EXCEPT !.i = @ + 1, !.buffer = Append(@, r.doc)]
          ELSE Fail("fatal")
    /\ UNCHANGED <<meta, store, fallback, modules, docs, assocs, callers>>

\* the primary collection is rewritten (migration pass) and handed to the
\* store: self._agents_collection / self._collection
open_primary ==
    /\ opening.pc = "primary"
    /\ opening.required => opening.i > Len(docs)
    /\ docs' = IF opening.required THEN opening.buffer ELSE docs
    /\ opening' = [opening EXCEPT !.pc = "associations", !.i = 1, !.buffer = <<>>,
                                  !.handed = @ \cup {"primary"}]
    /\ UNCHANGED <<meta, store, fallback, modules, assocs, callers>>

\* get_or_create_collection(associations, association_document_loader)
\* during a migration pass: a record the loader returns None for is dropped
open_load_association ==
    /\ opening.pc = "associations" /\ opening.required
    /\ opening.i <= Len(assocs)
    /\ opening' = [opening EXCEPT
                      !.i = @ + 1,
                      !.buffer = @ \o association_document_loader(store, assocs[opening.i])]
    /\ UNCHANGED <<meta, store, fallback, modules, docs, assocs, callers>>

open_associations ==
    /\ opening.pc = "associations"
    /\ opening.required => opening.i > Len(assocs)
    /\ assocs' = IF opening.required THEN opening.buffer ELSE assocs
    /\ opening' = [opening EXCEPT !.pc = "exit", !.i = 0, !.buffer = <<>>,
                                  !.handed = @ \cup {"associations"}]
    /\ UNCHANGED <<meta, store, fallback, modules, docs, callers>>

\* the guard is left without an exception: after a migration pass the
\* metadata record takes the store's version; `return self`
open_exit ==
    /\ opening.pc = "exit"
    /\ meta' = IF opening.required THEN VERSION(store) ELSE meta
    /\ opening' = [opening EXCEPT !.pc = "end", !.outcome = "usable"]
    /\ UNCHANGED <<store, fallback, modules, docs, assocs, callers>>

OpenNext ==
    \/ open_enter
    \/ open_load_document
    \/ open_primary
    \/ open_load_association
    \/ open_associations
    \/ open_exit

OpenSpec == OpenInit /\ [][OpenNext]_vars

\* what the database held before the open
Before == opening.stored
Untouched == docs = Before.docs /\ assocs = Before.assocs /\ meta = Before.meta
Ended == opening.pc = "end"
AllCurrent(coll) == \A i \in 1..Len(coll) : coll[i].version = VERSION(store)

\* C15: opening a store whose last-seen version is older than VERSION with
\* allow_migration=False ends with MigrationRequired; no collection is ever
\* handed to the store and the stored data stays as it was.
OpenWithoutPermissionFails ==
    (Less(Before.meta, VERSION(store)) /\ ~opening.allow) =>
        /\ opening.handed = {}
        /\ opening.outcome \in {"none", "MigrationRequired"}
        /\ Ended => opening.outcome = "MigrationRequired"
        /\ Untouched

\* an open without permission has failed on a database holding older records
OpenWithoutPermissionWitness ==
    /\ Ended /\ opening.outcome = "MigrationRequired" /\ ~opening.allow
    /\ docs # <<>> /\ assocs # <<>>

\* C16: opening a store whose last-seen version is newer than VERSION ends
\* with ServerOutdated, whatever allow_migration is; no stored record is
\* read, rewritten or dropped.
OpenNewerDataFails ==
    Less(VERSION(store), Before.meta) =>
        /\ opening.handed = {}
        /\ opening.outcome \in {"none", "ServerOutdated"}
        /\ Ended => opening.outcome = "ServerOutdated"
        /\ opening.buffer = <<>>
        /\ Untouched

\* an open with migration allowed has failed on newer data
OpenNewerDataWitness ==
    /\ Ended /\ opening.outcome = "ServerOutdated" /\ opening.allow
    /\ docs # <<>> /\ assocs # <<>>

\* C17: in a migration pass the metadata record takes the current version
\* only once every record of both collections carries it, and when the open
\* has completed every record carries it.
MigrationRewritesAll ==
    opening.required =>
        /\ meta # Before.meta => AllCurrent(docs) /\ AllCurrent(assocs)
        /\ opening.outcome = "usable" =>
              meta = VERSION(store) /\ AllCurrent(docs) /\ AllCurrent(assocs)

\* a migration pass over older records and associations has completed
MigrationRewritesAllWitness ==
    /\ opening.required /\ opening.outcome = "usable"
    /\ \E i \in 1..Len(Before.docs) : Before.docs[i].version # VERSION(store)
    /\ \E i \in 1..Len(Before.assocs) : Before.assocs[i].version # VERSION(store)
    /\ Len(docs) = Len(Before.docs) /\ Len(assocs) = Len(Before.assocs)

\* versions from which the store's chain cannot reach VERSION: a stub
\* converter (agents 0.1.0 and 0.2.0, guidelines 0.2.0, which 0.1.0 leads
\* to) or no converter at all
Unconvertible == {"0.0.1", "0.1.0", "0.2.0"}

FreshWrite(d) ==
    _serialize([id |-> d.id, creation_utc |-> fromisoformat(d.creation_utc),
                condition |-> d.condition, action |-> d.action, enabled |-> d.enabled,
                tags |-> <<>>, metadata |-> EmptyMap])

\* C19: after a migration pass of the guideline store, each document stored
\* under 0.3.0 is the document a fresh write under 0.4.0 produces for its
\* content: version 0.4.0, empty metadata, the other fields unchanged.
MigratedEqualsFresh ==
    (store = "guidelines" /\ opening.required /\ opening.outcome = "usable") =>
        /\ Len(docs) = Len(Before.docs)
        /\ \A i \in 1..Len(Before.docs) :
              Before.docs[i].version = "0.3.0" =>
                  /\ docs[i] = FreshWrite(Before.docs[i])
                  /\ docs[i].version = "0.4.0" /\ docs[i].metadata = EmptyMap
                  /\ \A f \in {"id", "creation_utc", "condition", "action", "enabled"} :
                        docs[i][f] = Before.docs[i][f]

\* a disabled and an enabled 0.3.0 guideline have been migrated
MigratedEqualsFreshWitness ==
    /\ store = "guidelines" /\ opening.required /\ opening.outcome = "usable"
    /\ \E i, j \in 1..Len(Before.docs) :
          /\ Before.docs[i].version = "0.3.0" /\ ~Before.docs[i].enabled
          /\ Before.docs[j].version = "0.3.0" /\ Before.docs[j].enabled

\* ------------------------------------------------- waiting for the lock
\* A method parks on self._lock until the lock admits it.  Here the call
\* and the admission are separate steps, a parked call may be cancelled,
\* and callers keep calling for ever.

\* the scope a method requests with its first statement
Scope(name) == IF name \in {"read", "list"} THEN "reader" ELSE "writer"

\* the first step a method takes inside its scope
Entry(s, name) ==
    CASE name = "list" -> "list_find"
      [] name = "update" ->
             (IF s = "agents" THEN "update_agent_find" ELSE "update_guideline_update")
      [] name = "remove_tag" -> "remove_delete"
      [] name = "upsert_tag" -> "upsert_read"

\* the store holds one entity, created with the tag t1
LockInit ==
    /\ store \in Stores
    /\ docs = InitialDocs(store, <<(<<"t1">>)>>)
    /\ assocs = InitialAssocs(store, <<(<<"t1">>)>>)
    /\ nextId = 2
    /\ waiters = <<>>
    /\ fallback = NoFallback
    /\ modules = NoModules
    /\ registry = NoRegistry
    /\ meta = VERSION(store)
    /\ opening = [pc |-> "end", allow |-> FALSE, outcome |-> "usable", required |-> FALSE,
                  i |-> 0, buffer |-> <<>>, handed |-> {"primary", "associations"},
                  stored |-> [docs |-> <<>>, assocs |-> <<>>, meta |-> VERSION(store)]]
    /\ writers = {}
    /\ readers = {}
    /\ pc = [p \in Procs |-> "idle"]
    /\ op = [p \in Procs |-> NoOp]
    /\ loc = [p \in Procs |-> NoLoc]
    /\ result = [p \in Procs |-> NoResult]
    /\ seen = [p \in Procs |-> {}]
    /\ opCount = 0

\* the calls made: list (reader scope), writes that raise inside their
\* scope because the id (0) or the pair (1, t3) is absent, and upsert_tag of
\* the stored entity, which inserts t2 once and returns False from then on
LockCalls ==
    {[NoOp EXCEPT !.name = "list"],
     [NoOp EXCEPT !.name = "update", !.id = 0,
                  !.params = IF store = "agents" THEN [name |-> "n2"]
                             ELSE [enabled |-> FALSE]],
     [NoOp EXCEPT !.name = "remove_tag", !.id = 1, !.tag = "t3"]}
    \cup {[NoOp EXCEPT !.name = "upsert_tag", !.id = id, !.tag = "t2"] : id \in Ids}

\* a method is called and parks on the lock
request(p) ==
    /\ At(p, "idle")
    /\ \E o \in LockCalls :
          /\ o.name = "upsert_tag" => nextId < MaxIds
          /\ op' = [op EXCEPT ![p] = o]
    /\ pc' = [pc EXCEPT ![p] = "wait"]
    /\ waiters' = Append(waiters, p)
    /\ UNCHANGED <<registry, meta, opening, store, fallback, modules, docs, assocs, nextId, writers, readers,
                   loc, result, seen, opCount>>

\* faulty variant: a caller is admitted whenever its scope is free, whoever
\* arrived first
CanEnter_barging(p) ==
    /\ p \in Range(waiters)
    /\ IF Scope(op[p].name) = "writer" THEN CanAcquireWriter(p) ELSE CanAcquireReader(p)

\* fairness policy of the lock: the parked callers are admitted in order of
\* arrival, each as soon as its scope is free
CanEnter(p) ==
    /\ waiters # <<>> /\ Head(waiters) = p
    /\ IF Scope(op[p].name) = "writer" THEN CanAcquireWriter(p) ELSE CanAcquireReader(p)

Remove(seq, p) == SelectSeq(seq, LAMBDA q : q # p)

\* the lock admits a parked caller, which enters its scope
acquire(p) ==
    /\ pc[p] = "wait"
    /\ CanEnter(p)
    /\ waiters' = Remove(waiters, p)
    /\ IF Scope(op[p].name) = "writer"
       THEN writers' = writers \cup {p} /\ UNCHANGED readers
       ELSE readers' = readers \cup {p} /\ UNCHANGED writers
    /\ pc' = [pc EXCEPT ![p] = Entry(store, op[p].name)]
    /\ UNCHANGED <<registry, meta, opening, store, fallback, modules, docs, assocs, nextId, op, loc, result,
                   seen, opCount>>

\* faulty variant: the cancelled call stays among the parked callers
cancel_parked(p) ==
    /\ At(p, "wait")
    /\ Return(p, Raise("CancelledError"))
    /\ UNCHANGED <<waiters, registry, meta, opening, store, fallback, modules, docs, assocs, nextId, writers,
                   readers, op, loc, seen, opCount>>

\* the parked call is cancelled: CancelledError is raised at the
\* `async with`, before the body of the method
cancel(p) ==
    /\ At(p, "wait")
    /\ waiters' = Remove(waiters, p)
    /\ Return(p, Raise("CancelledError"))
    /\ UNCHANGED <<registry, meta, opening, store, fallback, modules, docs, assocs, nextId, writers, readers,
                   op, loc, seen, opCount>>

\* the steps caller p takes once admitted (update is called with an absent
\* id only, so update_agent ends at its check)
Run(p) ==
    \/ list_find(p) \/ list_deserialize(p)
    \/ update_agent_find(p)
    \/ update_guideline_update(p) \/ return_updated(p)
    \/ remove_delete(p)
    \/ upsert_read(p) \/ upsert_insert(p)
    \/ Finish(p)

LockNext ==
    \/ \E p \in Procs : request(p)
    \/ \E p \in Procs : acquire(p)
    \/ \E p \in Procs : cancel(p)
    \/ \E p \in Procs : list_find(p)
    \/ \E p \in Procs : list_deserialize(p)
    \/ \E p \in Procs : update_agent_find(p)
    \/ \E p \in Procs : update_guideline_update(p)
    \/ \E p \in Procs : return_updated(p)
    \/ \E p \in Procs : remove_delete(p)
    \/ \E p \in Procs : upsert_read(p)
    \/ \E p \in Procs : upsert_insert(p)
    \/ \E p \in Procs : Finish(p)

\* The event loop runs every coroutine that is ready to run; a parked call
\* is not ready until the lock admits it, so it is owed admission only when
\* the lock would admit it from some point on.
LockSpec ==
    /\ LockInit
    /\ [][LockNext]_vars
    /\ \A p \in Procs : WF_vars(acquire(p)) /\ SF_vars(Run(p))

Cancelled(p) == pc[p] = "done" /\ result[p].kind = "CancelledError"
Holds(p) == p \in writers \/ p \in readers

\* C21: a call cancelled while parked on the lock holds neither scope and
\* is no longer among the parked callers; the parked callers are exactly
\* the calls still waiting, and a lock that nobody holds admits the first
\* of them.
CancelTakesNothing ==
    /\ \A p \in Procs : Cancelled(p) => ~Holds(p) /\ p \notin Range(waiters)
    /\ \A i \in 1..Len(waiters) : pc[waiters[i]] = "wait"
    /\ \A p \in Procs :
          (writers = {} /\ readers = {} /\ waiters # <<>> /\ Head(waiters) = p) =>
              ENABLED acquire(p)

\* a call parked ahead of another one has been cancelled while a third
\* party's scope was not in the way
CancelTakesNothingWitness ==
    \E p \in Procs : \E q \in Procs \ {p} :
        /\ Cancelled(p)
        /\ pc[q] = "wait" /\ waiters = <<q>>
        /\ writers = {} /\ readers = {}

RaisedInScope(p) ==
    /\ pc[p] = "done" /\ result[p].kind = "ItemNotFoundError"
    /\ op[p].name \in {"remove_tag", "update", "upsert_tag"}

\* C23: a method that has raised from inside its scope holds no scope, and
\* a call parked on the lock at that moment is admitted (unless cancelled
\* first).
RaiseReleasesScope ==
    /\ [](\A p \in Procs : RaisedInScope(p) => ~Holds(p))
    /\ \A p \in Procs : \A q \in Procs \ {p} :
          (RaisedInScope(p) /\ pc[q] = "wait") ~> (Holds(q) \/ Cancelled(q))

\* remove_tag has raised for a missing association while another call is
\* parked on the lock
RaiseReleasesScopeWitness ==
    \E p \in Procs : \E q \in Procs \ {p} :
        /\ RaisedInScope(p) /\ op[p].name = "remove_tag" /\ op[p].id = 1
        /\ pc[q] = "wait"

Creating(id) ==
    {q \in Procs : op[q].name = "create" /\ loc[q].entity # <<>> /\ loc[q].entity[1].id = id}

\* C24: every entity list_agents / list_guidelines returns carries all the
\* tags stored for it, and no entity it returns belongs to a create that is
\* still between its inserts: a created entity is listed with all the tags
\* it was created with or not at all.
ListSeesWholeCreate ==
    \A p \in Procs :
        (Completed(p, "list") /\ result[p].kind = "ok") =>
            \A i \in 1..Len(result[p].value) :
                LET e == result[p].value[i]
                IN /\ e.tags = Tags_of(store, assocs, e.id)
                   /\ \A q \in Creating(e.id) : e.tags = loc[q].entity[1].tags

\* a list has returned an entity created with the tags t1 and t2, with both
ListSeesWholeCreateWitness ==
    \E p \in Procs :
        /\ Completed(p, "list") /\ result[p].kind = "ok"
        /\ Len(result[p].value) = 1
        /\ result[p].value[1].tags = <<"t1", "t2">>

\* ------------------------------------------------ ServiceDocumentRegistry
\* registry.running is self._running_services (name -> service instance),
\* registry.sources the names in self._service_sources, registry.exit_stack
\* the contexts self._exit_stack has entered (oldest first),
\* registry.collection the documents of tool_services in insertion order,
\* and registry.instances the service objects built so far, each with its
\* class and the number of times its __aenter__ and __aexit__ have run.
ServiceNames == {"s1", "s2"}
ToolServiceKinds == {"local", "sdk", "openapi"}

\* a service object, not entered yet
NewService(kind) == [kind |-> kind, entered |-> 0, exited |-> 0]

\* service.__aenter__() / service.__aexit__(None, None, None)
Entered(instances, i) == [instances EXCEPT ![i].entered = @ + 1]
Exited(instances, i) == [instances EXCEPT ![i].exited = @ + 1]

\* self._exit_stack.enter_async_context(service)
enter_async_context(r, i) ==
    [r EXCEPT !.instances = Entered(@, i), !.exit_stack = Append(@, i)]

\* __aenter__ has run: the services that have a document were built,
\* entered through the exit stack and registered
Persisted == {{}, {"s1"}}

\* _serialize_tool_service(name, service), with _service_sources as it is
\* when the document is built
_serialize_tool_service(name, service, sources) ==
    [id |-> name,
     version |-> "0.1.0",
     name |-> name,
     kind |-> IF service.kind = "openapi" THEN "openapi" ELSE "sdk",
     source |-> IF service.kind = "openapi" /\ name \in sources THEN "source" ELSE "None"]

\* update_one(filters, params, upsert=True): the first match takes the
\* fields of params; without a match a record merging the filters with
\* params is inserted
UpsertOne(coll, filters, params) ==
    LET i == IndexOfFirst(coll, filters, 1)
        merged == [f \in (DOMAIN filters) \cup (DOMAIN params) |->
                      IF f \in DOMAIN params THEN params[f] ELSE filters[f]]
    IN IF i = 0 THEN Append(coll, merged)
       ELSE [coll EXCEPT ![i] = [f \in (DOMAIN @) \cup (DOMAIN params) |->
                                   IF f \in DOMAIN params THEN params[f] ELSE @[f]]]

RegistryAfterEnter(names) ==
    IF names = {} THEN NoRegistry
    ELSE [running |-> [n \in names |-> 1], sources |-> {}, exit_stack |-> <<1>>,
          collection |-> <<_serialize_tool_service("s1", NewService("sdk"), {})>>,
          instances |-> <<[NewService("sdk") EXCEPT !.entered = 1]>>,
          closed |-> FALSE]

RegistryInit ==
    /\ store = "services"
    /\ \E names \in Persisted : registry = RegistryAfterEnter(names)
    /\ docs = <<>>
    /\ assocs = <<>>
    /\ nextId = 0
    /\ waiters = <<>>
    /\ fallback = NoFallback
    /\ modules = NoModules
    /\ meta = "0.1.0"
    /\ opening = [pc |-> "end", allow |-> FALSE, outcome |-> "usable", required |-> FALSE,
                  i |-> 0, buffer |-> <<>>, handed |-> {"primary", "associations"},
                  stored |-> [docs |-> <<>>, assocs |-> <<>>, meta |-> "0.1.0"]]
    /\ writers = {}
    /\ readers = {}
    /\ pc = [p \in Procs |-> "idle"]
    /\ op = [p \in Procs |-> NoOp]
    /\ loc = [p \in Procs |-> NoLoc]
    /\ result = [p \in Procs |-> NoResult]
    /\ seen = [p \in Procs |-> {}]
    /\ opCount = 0

update_tool_service(p) ==
    /\ opening.pc = "end" /\ ~registry.closed
    /\ \E name \in ServiceNames, kind \in ToolServiceKinds, transient \in BOOLEAN :
          Call(p, [NoOp EXCEPT !.name = "update_tool_service",
                               !.args = [name |-> name, kind |-> kind,
                                         transient |-> transient]],
               "update_register")
    /\ EnterWriter(p)
    /\ UNCHANGED <<waiters, registry, meta, opening, store, fallback, modules, docs, assocs, nextId, seen>>

\* the body of the writer scope.  kind "local": the new LocalToolService is
\* registered and returned.  Otherwise the client is built (openapi: its
\* source is recorded), the service running under the name is exited, the
\* new one is entered through the exit stack and registered, and the scope
\* is left.
update_register(p) ==
    /\ UNCHANGED <<waiters, meta, opening, store, fallback, modules, docs, assocs, nextId, op, opCount>>
    /\ At(p, "update_register")
    /\ LET name == op[p].args.name
           kind == op[p].args.kind
           i == Len(registry.instances) + 1
           built == [registry EXCEPT
                        !.instances = Append(@, NewService(kind)),
                        !.sources = IF kind = "openapi" THEN @ \cup {name} ELSE @]
           released == IF name \in DOMAIN registry.running
                       THEN [built EXCEPT !.instances = Exited(@, registry.running[name])]
                       ELSE built
           running == Override(registry.running, [n \in {name} |-> i])
       IN IF kind = "local"
          THEN /\ registry' = [registry EXCEPT !.instances = Append(@, NewService(kind)),
                                               !.running = running]
               /\ loc' = [loc EXCEPT ![p].entity = <<i>>]
               /\ ExitWriter(p)
               /\ Return(p, Ok(<<i>>))
          ELSE /\ registry' = [enter_async_context(released, i) EXCEPT !.running = running]
               /\ loc' = [loc EXCEPT ![p].entity = <<i>>]
               /\ ExitWriter(p)
               /\ Goto(p, "update_enter")

\* after the scope: enter_async_context(service) once more, then
\* self._running_services[name] = service
update_enter(p) ==
    /\ At(p, "update_enter")
    /\ registry' = [enter_async_context(registry, loc[p].entity[1]) EXCEPT
                       !.running = Override(@, [n \in {op[p].args.name} |->
                                                   loc[p].entity[1]])]
    /\ Goto(p, "update_persist")
    /\ UNCHANGED <<waiters, meta, opening, store, fallback, modules, docs, assocs, nextId, writers, readers, op,
                   loc, seen, opCount>>

\* faulty variant: the document is written whatever `transient` says
update_persist_always(p) ==
    /\ At(p, "update_persist")
    /\ registry' = [registry EXCEPT !.collection =
                      UpsertOne(@, [name |-> op[p].args.name],
                                _serialize_tool_service(
                                    op[p].args.name,
                                    registry.instances[loc[p].entity[1]],
                                    registry.sources))]
    /\ Return(p, Ok(loc[p].entity))
    /\ UNCHANGED <<waiters, meta, opening, store, fallback, modules, docs, assocs, nextId, writers, readers, op,
                   loc, seen, opCount>>

\* `if not transient: update_one(filters, params, upsert=True)`; return service
update_persist(p) ==
    /\ At(p, "update_persist")
    /\ registry' = IF op[p].args.transient THEN registry
                   ELSE [registry EXCEPT !.collection =
                            UpsertOne(@, [name |-> op[p].args.name],
                                      _serialize_tool_service(
                                          op[p].args.name,
                                          registry.instances[loc[p].entity[1]],
                                          registry.sources))]
    /\ Return(p, Ok(loc[p].entity))
    /\ UNCHANGED <<waiters, meta, opening, store, fallback, modules, docs, assocs, nextId, writers, readers, op,
                   loc, seen, opCount>>

delete_service(p) ==
    /\ opening.pc = "end" /\ ~registry.closed
    /\ \E name \in ServiceNames :
          Call(p, [NoOp EXCEPT !.name = "delete_service", !.args = [name |-> name]],
               "delete_running")
    /\ EnterWriter(p)
    /\ UNCHANGED <<waiters, registry, meta, opening, store, fallback, modules, docs, assocs, nextId, seen>>

\* the body of the writer scope: a running LocalToolService is unregistered
\* and the method returns; any other running service is exited and
\* unregistered with its source; then delete_one on the collection.  After
\* the scope: `if not result.deleted_count: raise ItemNotFoundError`
delete_running(p) ==
    /\ UNCHANGED <<waiters, meta, opening, store, fallback, modules, docs, assocs, nextId, op, loc, opCount>>
    /\ At(p, "delete_running")
    /\ LET name == op[p].args.name
           runs == name \in DOMAIN registry.running
           local == runs /\ registry.instances[registry.running[name]].kind = "local"
       IN IF local
          THEN /\ registry' = [registry EXCEPT !.running = Without(@, {name})]
               /\ ExitWriter(p)
               /\ Return(p, Ok(<<>>))
          ELSE /\ registry' =
                     [registry EXCEPT
                         !.instances = IF runs THEN Exited(@, registry.running[name]) ELSE @,
                         !.running = Without(@, {name}),
                         !.sources = IF runs THEN @ \ {name} ELSE @,
                         !.collection = DeleteOne(@, [name |-> name]).coll]
               /\ ExitWriter(p)
               /\ Return(p, IF DeleteOne(registry.collection, [name |-> name]).deleted # <<>>
                            THEN Ok(<<>>)
                            ELSE Raise("ItemNotFoundError"))

\* how many times instance i is on the exit stack
OnStack(stack, i) == Cardinality({k \in 1..Len(stack) : stack[k] = i})

\* __aexit__ of the registry, once no call is in flight: the exit stack
\* exits every context it entered, then both dicts are cleared
registry_aexit ==
    /\ opening.pc = "end" /\ ~registry.closed
    /\ \A p \in Procs : pc[p] = "idle"
    /\ registry' =
          [registry EXCEPT
              !.instances = [i \in 1..Len(@) |->
                                [@[i] EXCEPT !.exited = @ + OnStack(registry.exit_stack, i)]],
              !.exit_stack = <<>>,
              !.running = EmptyMap,
              !.sources = {},
              !.closed = TRUE]
    /\ UNCHANGED <<waiters, meta, opening, store, fallback, modules, docs, assocs, nextId, writers, readers,
                   pc, op, loc, result, seen, opCount>>

RegistryNext ==
    \/ \E p \in Procs : update_tool_service(p)
    \/ \E p \in Procs : update_register(p)
    \/ \E p \in Procs : update_enter(p)
    \/ \E p \in Procs : update_persist(p)
    \/ \E p \in Procs : delete_service(p)
    \/ \E p \in Procs : delete_running(p)
    \/ \E p \in Procs : Finish(p)
    \/ registry_aexit

RegistrySpec == RegistryInit /\ [][RegistryNext]_vars

RegistryMethods == {"update_tool_service", "delete_service"}

\* C25: every step of update_tool_service or delete_service that changes the
\* running services, the exit stack or the collection is taken by a caller
\* that holds the writer scope, so no delete_service acts between the
\* registration of a service and the persistence of its document.
RegistryMutatesInScope ==
    [][\A p \in Procs :
          (op[p].name \in RegistryMethods /\ Stepped(p) /\ registry' # registry) =>
              p \in writers]_vars

\* C26: no service instance has been exited more times than it was entered,
\* and once the registry is closed every instance that was entered has been
\* exited.
ServiceExitsMatchEnters ==
    \A i \in 1..Len(registry.instances) :
        /\ registry.instances[i].exited <= registry.instances[i].entered
        /\ (registry.closed /\ registry.instances[i].entered > 0) =>
              registry.instances[i].exited > 0

\* ---------------------------------------------- reading legacy associations
\* A store opened on a database whose last-seen version is the store's own
\* runs no migration pass; association records written by older code stay
\* as stored and go through the association loader when they are found.
\* One caller reads, lists and deletes.

\* versions of the code that may have written a record of the database
WrittenBy(s) == {v \in KnownVersions : v = VERSION(s) \/ Less(v, VERSION(s))}

\* the association records of entity 1, the i-th carrying tag t1 or t2
LegacyAssociations(s, versions) ==
    [i \in 1..Len(versions) |->
        [AssociationDocument(s, 1 + i, Now, 1, IF i % 2 = 1 THEN "t1" ELSE "t2")
            EXCEPT !.version = versions[i]]]

LoadInit ==
    /\ store \in Stores
    /\ docs = InitialDocs(store, <<(<<>>)>>)
    /\ \E n \in 0..MaxStored : \E versions \in [1..n -> WrittenBy(store)] :
          /\ assocs = LegacyAssociations(store, versions)
          /\ nextId = 1 + n
    /\ waiters = <<>>
    /\ fallback = NoFallback
    /\ modules = NoModules
    /\ registry = NoRegistry
    /\ meta = VERSION(store)
    /\ opening = [pc |-> "end", allow |-> FALSE, outcome |-> "usable", required |-> FALSE,
                  i |-> 0, buffer |-> <<>>, handed |-> {"primary", "associations"},
                  stored |-> [docs |-> <<>>, assocs |-> <<>>, meta |-> VERSION(store)]]
    /\ writers = {}
    /\ readers = {}
    /\ pc = [p \in Procs |-> "idle"]
    /\ op = [p \in Procs |-> NoOp]
    /\ loc = [p \in Procs |-> NoLoc]
    /\ result = [p \in Procs |-> NoResult]
    /\ seen = [p \in Procs |-> {}]
    /\ opCount = 0

LoadNext ==
    \/ read_agent(1)
    \/ read_find(1)
    \/ read_deserialize(1)
    \/ list_agents(1)
    \/ list_guidelines(1)
    \/ list_find(1)
    \/ list_deserialize(1)
    \/ delete_agent(1)
    \/ delete_one(1)
    \/ delete_tags(1)
    \/ delete_return(1)
    \/ Finish(1)

LoadSpec == LoadInit /\ [][LoadNext]_vars

\* the versions each association loader accepts
Accepted(s) == IF s = "agents" THEN {"0.3.0"} ELSE {"0.3.0", "0.4.0"}

\* the tags of the stored association records of `id` that carry an
\* accepted version, in stored order
AcceptedTags(s, as, id) ==
    LET kept == SelectSeq(as, LAMBDA d : d.entity_id = id /\ d.version \in Accepted(s))
    IN [i \in 1..Len(kept) |-> kept[i].tag_id]

\* C27: an entity returned by read or list carries the tags of exactly the
\* association records whose stored version its store's loader accepts
\* (0.3.0 for agents; 0.3.0 and 0.4.0 for guidelines), and every association
\* record a find hands to the store carries the store's version and is
\* otherwise the stored record.
LoadersNormalize ==
    \A p \in Procs :
        /\ (Completed(p, "read") /\ result[p].kind = "ok") =>
              result[p].value[1].tags = AcceptedTags(store, assocs, op[p].id)
        /\ (Completed(p, "list") /\ result[p].kind = "ok") =>
              \A i \in 1..Len(result[p].value) :
                  result[p].value[i].tags =
                      AcceptedTags(store, assocs, result[p].value[i].id)
        /\ (op[p].name = "delete" /\ pc[p] = "delete_tags" /\ loc[p].i = 1) =>
              /\ Len(loc[p].list) = Len(AcceptedTags(store, assocs, op[p].id))
              /\ \A i \in 1..Len(loc[p].list) :
                    /\ loc[p].list[i].version = VERSION(store)
                    /\ \E k \in 1..Len(assocs) :
                          /\ assocs[k].version \in Accepted(store)
                          /\ loc[p].list[i] = [assocs[k] EXCEPT !.version = VERSION(store)]

\* read_agent has returned an agent that has one association record stored
\* under 0.2.0 and one under 0.3.0, with the tag of the latter only
LoadersNormalizeWitness ==
    \E p \in Procs :
        /\ Completed(p, "read") /\ result[p].kind = "ok" /\ store = "agents"
        /\ Len(assocs) = 2
        /\ assocs[1].version = "0.2.0" /\ assocs[2].version = "0.3.0"
        /\ result[p].value[1].tags = <<"t2">>

\* ------------------------------------------------------------- generate_id
\* nanoid.generate(size=10) returns any string of that size over nanoid's
\* alphabet: letters and digits (here "a"), "-" and "_".
IdSize == 10
IdAlphabet == {"a", "-", "_"}
Candidates == [1..IdSize -> IdAlphabet]

\* faulty variant: only the first character is tested for "-"
IdAccepted_first(new_id) ==
    /\ "-" # new_id[1]
    /\ "_" \notin Range(new_id)

\* `"-" not in (new_id[0], new_id[-1]) and "_" not in new_id`
IdAccepted(new_id) ==
    /\ "-" \notin {new_id[1], new_id[Len(new_id)]}
    /\ "_" \notin Range(new_id)

IdInit ==
    /\ store \in Stores
    /\ docs = <<>>
    /\ assocs = <<>>
    /\ nextId = 0
    /\ waiters = <<>>
    /\ fallback = NoFallback
    /\ modules = NoModules
    /\ registry = NoRegistry
    /\ meta = VERSION(store)
    /\ opening = [pc |-> "end", allow |-> FALSE, outcome |-> "usable", required |-> FALSE,
                  i |-> 0, buffer |-> <<>>, handed |-> {"primary", "associations"},
                  stored |-> [docs |-> <<>>, assocs |-> <<>>, meta |-> VERSION(store)]]
    /\ writers = {}
    /\ readers = {}
    /\ pc = [p \in Procs |-> "idle"]
    /\ op = [p \in Procs |-> NoOp]
    /\ loc = [p \in Procs |-> NoLoc]
    /\ result = [p \in Procs |-> NoResult]
    /\ seen = [p \in Procs |-> {}]
    /\ opCount = 0

generate_id(p) ==
    /\ nextId < MaxIds
    /\ Call(p, [NoOp EXCEPT !.name = "generate_id"], "nanoid_generate")
    /\ UNCHANGED <<waiters, registry, meta, opening, store, fallback, modules, docs, assocs, nextId, writers,
                   readers, seen>>

\* new_id = nanoid.generate(size=10)
nanoid_generate(p) ==
    /\ At(p, "nanoid_generate")
    /\ \E new_id \in Candidates : loc' = [loc EXCEPT ![p].new_id = new_id]
    /\ Goto(p, "generate_id_test")
    /\ UNCHANGED <<waiters, registry, meta, opening, store, fallback, modules, docs, assocs, nextId, writers,
                   readers, op, seen, opCount>>

\* the test of the candidate: it is returned, or the loop draws another one
\* (the rejected candidate is overwritten)
generate_id_test(p) ==
    /\ At(p, "generate_id_test")
    /\ IF IdAccepted(loc[p].new_id)
       THEN /\ Return(p, Ok(<<loc[p].new_id>>))
            /\ nextId' = nextId + 1
            /\ UNCHANGED loc
       ELSE /\ Goto(p, "nanoid_generate")
            /\ loc' = [loc EXCEPT ![p].new_id = <<>>]
            /\ UNCHANGED nextId
    /\ UNCHANGED <<waiters, registry, meta, opening, store, fallback, modules, docs, assocs, writers, readers,
                   op, seen, opCount>>

IdNext ==
    \/ generate_id(1)
    \/ nanoid_generate(1)
    \/ generate_id_test(1)
    \/ Finish(1)

IdSpec == IdInit /\ [][IdNext]_vars

Separators == {"-", "_"}

\* C28: every identifier generate_id returns has 10 characters and neither
\* starts nor ends with "-" or "_".
GeneratedIdShape ==
    \A p \in Procs :
        (Completed(p, "generate_id") /\ result[p].kind = "ok") =>
            LET id == result[p].value[1]
            IN /\ Len(id) = IdSize
               /\ id[1] \notin Separators
               /\ id[Len(id)] \notin Separators

\* generate_id has returned an identifier with "-" inside it, on a second
\* call
GeneratedIdWitness ==
    \E p \in Procs :
        /\ Completed(p, "generate_id") /\ result[p].kind = "ok"
        /\ "-" \in Range(result[p].value[1])
        /\ nextId = 2

\* ------------------------------------------------ one record per (id, tag)
\* the store starts empty: every record is written by a call of the run
EmptyInit == Init /\ docs = <<>>

FromEmptySpec == EmptyInit /\ [][Next]_vars

\* C30: whenever no caller holds the writer scope, the association
\* collection holds at most one record per (entity id, tag id) pair.
OneRecordPerPair ==
    writers = {} =>
        \A i, j \in 1..Len(assocs) :
            (assocs[i].entity_id = assocs[j].entity_id /\ assocs[i].tag_id = assocs[j].tag_id)
                => i = j

\* --------------------------------------------- remove_tag, then read, list
\* C31: when remove_tag(id, tag) has returned without raising, the entity
\* read by id does not have the tag, and a list filtered by that tag alone
\* does not return the entity.
RemoveTagRemoves ==
    \A p \in Procs :
        (Completed(p, "remove_tag") /\ result[p].kind = "ok") =>
            /\ \A e \in Range(View(store, docs, assocs, op[p].id)) :
                  op[p].tag \notin Range(e.tags)
            /\ \A e \in Range(ListResult(store, docs, assocs, <<op[p].tag>>)) :
                  store = "guidelines" => e.id # op[p].id

\* ------------------------------------------- update_guideline, every key
\* C32: when update_guideline(id, params) on a stored guideline has
\* returned, every key present in params has the supplied value in the
\* returned guideline and in what read_guideline(id) returns next.
UpdateGuidelineAppliesParams ==
    \A p \in Procs :
        (store = "guidelines" /\ Completed(p, "update") /\ result[p].kind = "ok") =>
            \A f \in DOMAIN op[p].params :
                /\ result[p].value[1][f] = op[p].params[f]
                /\ \A e \in Range(View(store, docs, assocs, op[p].id)) :
                      e[f] = op[p].params[f]

\* ------------------------------------------ add_metadata, remove_metadata
\* One caller adds and removes metadata on a guideline that already has some.
\* the metadata the stored guideline starts with
InitialMetadata == UNION {[S -> {"v0"}] : S \in SUBSET MetaKeys}

MetaInit ==
    /\ store = "guidelines"
    /\ \E m \in InitialMetadata :
          docs = <<[InitialDocs("guidelines", <<(<<"t1">>)>>)[1] EXCEPT !.metadata = m]>>
    /\ assocs = InitialAssocs("guidelines", <<(<<"t1">>)>>)
    /\ nextId = 2
    /\ waiters = <<>>
    /\ fallback = NoFallback
    /\ modules = NoModules
    /\ registry = NoRegistry
    /\ meta = VERSION(store)
    /\ opening = [pc |-> "end", allow |-> FALSE, outcome |-> "usable", required |-> FALSE,
                  i |-> 0, buffer |-> <<>>, handed |-> {"primary", "associations"},
                  stored |-> [docs |-> <<>>, assocs |-> <<>>, meta |-> VERSION(store)]]
    /\ writers = {}
    /\ readers = {}
    /\ pc = [p \in Procs |-> "idle"]
    /\ op = [p \in Procs |-> NoOp]
    /\ loc = [p \in Procs |-> NoLoc]
    /\ result = [p \in Procs |-> NoResult]
    /\ seen = [p \in Procs |-> {}]
    /\ opCount = 0

\* the caller reads the guideline, keeps what it read, and calls
\* add_metadata(id, M); `keys` holds the keys of M it will remove afterwards
add_then_remove(p) ==
    /\ At(p, "idle")
    /\ opCount < MaxOps
    /\ opCount' = opCount + 1
    /\ \E id \in Ids \ {0}, m \in MetadataArgs :
          /\ op' = [op EXCEPT ![p] = [NoOp EXCEPT !.name = "add_metadata", !.id = id,
                                                  !.params = m, !.keys = DOMAIN m]]
          /\ loc' = [loc EXCEPT ![p].entity = View(store, docs, assocs, id)]
    /\ pc' = [pc EXCEPT ![p] = "add_metadata_find"]
    /\ EnterWriter(p)
    /\ UNCHANGED <<waiters, registry, meta, opening, store, fallback, modules, docs, assocs, nextId, result, seen>>

\* add_metadata has returned: remove_metadata(id, keys of M) is called next
then_remove(p) ==
    /\ Completed(p, "add_metadata") /\ op[p].keys # {} /\ result[p].kind = "ok"
    /\ opCount < MaxOps
    /\ opCount' = opCount + 1
    /\ op' = [op EXCEPT ![p].name = "remove_metadata"]
    /\ result' = [result EXCEPT ![p] = NoResult]
    /\ pc' = [pc EXCEPT ![p] = "remove_metadata_find"]
    /\ EnterWriter(p)
    /\ UNCHANGED <<waiters, registry, meta, opening, store, fallback, modules, docs, assocs, nextId, loc, seen>>

MetaNext ==
    \/ add_metadata(1)
    \/ add_metadata_find(1)
    \/ remove_metadata(1)
    \/ remove_metadata_find(1)
    \/ metadata_update(1)
    \/ return_updated(1)
    \/ add_then_remove(1)
    \/ then_remove(1)
    \/ Finish(1)

MetaSpec == MetaInit /\ [][MetaNext]_vars

\* the stored guideline `id` (its document joined with its tags), or <<>>
Stored(ds, as, id) == View("guidelines", ds, as, id)

\* the step of caller p in which its add_metadata or remove_metadata writes
Writes(p) == pc[p] = "metadata_update" /\ pc'[p] # pc[p]

\* add_metadata(id, M): the new metadata is the old overridden by M
Added(p) ==
    LET old == Stored(docs, assocs, op[p].id)[1].metadata
        new == Stored(docs', assocs', op[p].id)[1].metadata
        M == op[p].params
    IN /\ DOMAIN new = (DOMAIN old) \cup (DOMAIN M)
       /\ \A k \in DOMAIN M : new[k] = M[k]
       /\ \A k \in (DOMAIN old) \ (DOMAIN M) : new[k] = old[k]

\* remove_metadata(id, K): the new metadata is the old without the keys of K
Removed(p) ==
    LET old == Stored(docs, assocs, op[p].id)[1].metadata
        new == Stored(docs', assocs', op[p].id)[1].metadata
    IN /\ DOMAIN new = (DOMAIN old) \ op[p].keys
       /\ \A k \in DOMAIN new : new[k] = old[k]

\* nothing but the metadata of guideline `id` differs
MetadataOnly(p) ==
    /\ assocs' = assocs
    /\ Len(docs') = Len(docs)
    /\ \A i \in 1..Len(docs) :
          IF docs[i].id # op[p].id THEN docs'[i] = docs[i]
          ELSE /\ DOMAIN docs'[i] = DOMAIN docs[i]
               /\ \A f \in (DOMAIN docs[i]) \ {"metadata"} : docs'[i][f] = docs[i][f]
    /\ \A f \in {"condition", "action", "enabled", "tags"} :
          Stored(docs', assocs', op[p].id)[1][f] = Stored(docs, assocs, op[p].id)[1][f]

\* add_metadata(id, M) then remove_metadata(id, keys of M) has returned, and
\* no key of M was in the metadata read before the two calls
RoundTrip(p) ==
    /\ Completed(p, "remove_metadata") /\ op[p].params # EmptyMap
    /\ result[p].kind = "ok"
    /\ (DOMAIN op[p].params) \cap (DOMAIN loc[p].entity[1].metadata) = {}

\* C33: the write of add_metadata(id, M) leaves the metadata equal to the
\* old metadata overridden by M, the write of remove_metadata(id, K) leaves
\* it equal to the old metadata without the keys of K, neither changes the
\* condition, action, enabled flag or tags, or any other record, and
\* add_metadata(id, M) followed by remove_metadata(id, keys of M) restores
\* the guideline read before when no key of M was present.
MetadataAlgebra ==
    /\ [][/\ \A p \in Procs :
               Writes(p) =>
                  /\ op[p].name = "add_metadata" => Added(p)
                  /\ op[p].name = "remove_metadata" => Removed(p)
                  /\ MetadataOnly(p)
          /\ (\A p \in Procs : ~Writes(p)) => (docs' = docs /\ assocs' = assocs)]_vars
    /\ [](\A p \in Procs :
            /\ (pc[p] = "done" /\ result[p].kind = "ok") =>
                  result[p].value = Stored(docs, assocs, op[p].id)
            /\ RoundTrip(p) => Stored(docs, assocs, op[p].id) = loc[p].entity)

\* add_metadata of a new key and remove_metadata of that key have returned
\* on a guideline that had another key
MetadataAlgebraWitness ==
    \E p \in Procs :
        /\ RoundTrip(p)
        /\ loc[p].entity[1].metadata # EmptyMap
        /\ result[p].value[1].metadata # EmptyMap

\* ------------------------------------------- delete of a running service
\* C34: the body of delete_service(name), run while no other call is in
\* flight on a name that is registered as a running service, removes the
\* name from the running services and the call does not raise
\* ItemNotFoundError.
DeleteRunningSucceeds ==
    [][\A p \in Procs :
          (/\ pc[p] = "delete_running" /\ pc'[p] = "done"
           /\ \A q \in Procs \ {p} : pc[q] = "idle"
           /\ op[p].args.name \in DOMAIN registry.running) =>
              /\ op[p].args.name \notin DOMAIN registry'.running
              /\ result'[p].kind # "ItemNotFoundError"]_vars

\* ------------------------------------------------ persisted tool services
\* the documents of tool_services that carry the name
DocumentsOf(coll, name) == {i \in 1..Len(coll) : coll[i].name = name}

\* C35: no step of an update_tool_service called with transient=True or
\* with kind "local" changes the tool_services collection; when a call with
\* transient=False and kind "openapi" or "sdk" returns, the collection
\* holds exactly one document for the name, and it describes the service
\* the call built; the collection never holds two documents for one name.
PersistedOncePerName ==
    /\ [][\A p \in Procs :
            (/\ op[p].name = "update_tool_service" /\ Stepped(p)
             /\ (op[p].args.transient \/ op[p].args.kind = "local")) =>
                registry'.collection = registry.collection]_vars
    /\ [](\A p \in Procs :
            (/\ Completed(p, "update_tool_service")
             /\ ~op[p].args.transient /\ op[p].args.kind # "local") =>
                \E i \in 1..Len(registry.collection) :
                    /\ DocumentsOf(registry.collection, op[p].args.name) = {i}
                    /\ registry.collection[i].kind = op[p].args.kind)
    /\ [](\A name \in ServiceNames :
            Cardinality(DocumentsOf(registry.collection, name)) <= 1)

\* an update_tool_service(s1, openapi, transient=False) has returned and the
\* document of s1, written for an sdk service before, describes it; another
\* name has no document
PersistedOncePerNameWitness ==
    \E p \in Procs :
        /\ Completed(p, "update_tool_service")
        /\ op[p].args = [name |-> "s1", kind |-> "openapi", transient |-> FALSE]
        /\ registry.instances[1].exited > 0
        /\ Len(registry.collection) = 1
        /\ registry.collection[1].kind = "openapi"

\* ------------------------------------------ the registry's open and close
\* The registry is opened on a database that holds tool service documents;
\* one caller then registers and deletes services; the registry is closed.
\* a document update_tool_service may have written for the name
StoredService(name, kind) ==
    _serialize_tool_service(name, NewService(kind), {name})

\* what tool_services may hold at open: at most one document per name
StoredServices ==
    {<<>>}
    \cup {<<StoredService(n, k)>> : n \in ServiceNames, k \in {"sdk", "openapi"}}
    \cup {<<StoredService(n[1], k[1]), StoredService(n[2], k[2])>> :
            n \in {<<"s1", "s2">>, <<"s2", "s1">>},
            k \in {"sdk", "openapi"} \X {"sdk", "openapi"}}

RegistryOpenInit ==
    /\ store = "services"
    /\ \E coll \in StoredServices : registry = [NoRegistry EXCEPT !.collection = coll]
    /\ docs = <<>>
    /\ assocs = <<>>
    /\ nextId = 0
    /\ waiters = <<>>
    /\ fallback = NoFallback
    /\ modules = NoModules
    /\ meta = "0.1.0"
    /\ opening = [pc |-> "enter", allow |-> FALSE, outcome |-> "usable", required |-> FALSE,
                  i |-> 0, buffer |-> <<>>, handed |-> {"primary", "associations"},
                  stored |-> [docs |-> <<>>, assocs |-> <<>>, meta |-> "0.1.0"]]
    /\ writers = {}
    /\ readers = {}
    /\ pc = [p \in Procs |-> "idle"]
    /\ op = [p \in Procs |-> NoOp]
    /\ loc = [p \in Procs |-> NoLoc]
    /\ result = [p \in Procs |-> NoResult]
    /\ seen = [p \in Procs |-> {}]
    /\ opCount = 0

\* __aenter__: the collection is obtained, the exit stack is created and
\* entered, documents = find({})
registry_aenter ==
    /\ opening.pc = "enter"
    /\ opening' = [opening EXCEPT !.pc = "load", !.buffer = registry.collection, !.i = 1]
    /\ registry' = [registry EXCEPT !.exit_stack = <<>>]
    /\ UNCHANGED <<waiters, meta, store, fallback, modules, docs, assocs, nextId, writers, readers,
                   pc, op, loc, result, seen, opCount>>

\* faulty variant: a service whose document has no source is entered but
\* not registered
registry_load_unregistered ==
    /\ opening.pc = "load" /\ opening.i <= Len(opening.buffer)
    /\ LET document == opening.buffer[opening.i]
           i == Len(registry.instances) + 1
           built == [registry EXCEPT !.instances = Append(@, NewService(document.kind))]
       IN registry' =
             [enter_async_context(built, i) EXCEPT
                 !.running = IF document.source # "None"
                             THEN Override(@, [n \in {document.name} |-> i]) ELSE @,
                 !.sources = IF document.source # "None"
                             THEN @ \cup {document.name} ELSE @]
    /\ opening' = [opening EXCEPT !.i = @ + 1]
    /\ UNCHANGED <<waiters, meta, store, fallback, modules, docs, assocs, nextId, writers, readers,
                   pc, op, loc, result, seen, opCount>>

\* one turn of `for document in documents`: the service is deserialized,
\* entered through the exit stack and registered; a source is recorded
registry_load ==
    /\ opening.pc = "load" /\ opening.i <= Len(opening.buffer)
    /\ LET document == opening.buffer[opening.i]
           i == Len(registry.instances) + 1
           built == [registry EXCEPT !.instances = Append(@, NewService(document.kind))]
       IN registry' =
             [enter_async_context(built, i) EXCEPT
                 !.running = Override(@, [n \in {document.name} |-> i]),
                 !.sources = IF document.source # "None"
                             THEN @ \cup {document.name} ELSE @]
    /\ opening' = [opening EXCEPT !.i = @ + 1]
    /\ UNCHANGED <<waiters, meta, store, fallback, modules, docs, assocs, nextId, writers, readers,
                   pc, op, loc, result, seen, opCount>>

\* the loop is over: `return self`
registry_opened ==
    /\ opening.pc = "load" /\ opening.i > Len(opening.buffer)
    /\ opening' = [opening EXCEPT !.pc = "end"]
    /\ UNCHANGED <<waiters, registry, meta, store, fallback, modules, docs, assocs, nextId, writers, readers,
                   pc, op, loc, result, seen, opCount>>

RegistryOpenNext ==
    \/ registry_aenter
    \/ registry_load
    \/ registry_opened
    \/ update_tool_service(1)
    \/ update_register(1)
    \/ update_enter(1)
    \/ update_persist(1)
    \/ delete_service(1)
    \/ delete_running(1)
    \/ Finish(1)
    \/ registry_aexit

RegistryOpenSpec == RegistryOpenInit /\ [][RegistryOpenNext]_vars

\* __aenter__ has returned and no method has been called yet
JustOpened == opening.pc = "end" /\ opCount = 0 /\ ~registry.closed

TokenLimits == {1, 2}
GenerateOutcomes == {"ok", "Exception", "BaseException"}
Generators == [max_tokens : TokenLimits, generate : GenerateOutcomes]
GeneratorTuples == UNION {[1..n -> Generators] : n \in 0..MaxGenerators}

RaisedBy(index) == [kind |-> "raised", value |-> <<index>>]

RECURSIVE Min(_)
Min(ns) ==
    IF Len(ns) = 1 THEN ns[1]
    ELSE IF ns[1] <= Min(Tail(ns)) THEN ns[1] ELSE Min(Tail(ns))

GeneratorInit ==
    /\ store = "generators"
    /\ fallback = NoFallback
    /\ modules = NoModules
    /\ waiters = <<>>
    /\ registry = NoRegistry
    /\ docs = <<>>
    /\ assocs = <<>>
    /\ nextId = 0
    /\ meta = "none"
    /\ opening = [pc |-> "end", allow |-> FALSE, outcome |-> "usable", required |-> FALSE,
                  i |-> 0, buffer |-> <<>>, handed |-> {"primary", "associations"},
                  stored |-> [docs |-> <<>>, assocs |-> <<>>, meta |-> "none"]]
    /\ writers = {}
    /\ readers = {}
    /\ pc = [p \in Procs |-> "idle"]
    /\ op = [p \in Procs |-> NoOp]
    /\ loc = [p \in Procs |-> NoLoc]
    /\ result = [p \in Procs |-> NoResult]
    /\ seen = [p \in Procs |-> {}]
    /\ opCount = 0

\* __init__(*generators, logger): `assert generators`
FallbackSchematicGenerator ==
    /\ fallback.pc = "none"
    /\ \E generators \in GeneratorTuples :
          fallback' = IF generators = <<>>
                      THEN [fallback EXCEPT !.pc = "returned", !.call = "__init__",
                                            !.outcome = Raise("AssertionError")]
                      ELSE [fallback EXCEPT !.pc = "ready", !.generators = generators]
    /\ UNCHANGED <<modules, waiters, registry, meta, opening, store, docs, assocs, nextId,
                   writers, readers, pc, op, loc, result, seen, opCount>>

\* generate(prompt, hints) is called: `last_exception` is declared, unbound
generate ==
    /\ fallback.pc = "ready"
    /\ fallback' = [fallback EXCEPT !.pc = "generate", !.call = "generate", !.index = 1]
    /\ UNCHANGED <<modules, waiters, registry, meta, opening, store, docs, assocs, nextId,
                   writers, readers, pc, op, loc, result, seen, opCount>>

\* faulty variant: the first exception is the one kept
generate_try_first ==
    /\ fallback.pc = "generate" /\ fallback.index <= Len(fallback.generators)
    /\ LET index == fallback.index
           called == [fallback EXCEPT !.invoked = Append(@, index)]
       IN fallback' =
             CASE fallback.generators[index].generate = "ok" ->
                    [called EXCEPT !.pc = "returned", !.outcome = Ok(<<index>>)]
               [] fallback.generators[index].generate = "Exception" ->
                    [called EXCEPT !.last_exception =
                                      IF @ = <<>> THEN <<index>> ELSE @,
                                   !.index = @ + 1]
               [] fallback.generators[index].generate = "BaseException" ->
                    [called EXCEPT !.pc = "returned", !.outcome = RaisedBy(index)]
    /\ UNCHANGED <<modules, waiters, registry, meta, opening, store, docs, assocs, nextId,
                   writers, readers, pc, op, loc, result, seen, opCount>>

\* one turn of `for index, generator in enumerate(self._generators)`:
\* `return result`, or `except Exception as e: last_exception = e`; an
\* exception that is not an Exception leaves the method
generate_try ==
    /\ fallback.pc = "generate" /\ fallback.index <= Len(fallback.generators)
    /\ LET index == fallback.index
           called == [fallback EXCEPT !.invoked = Append(@, index)]
       IN fallback' =
             CASE fallback.generators[index].generate = "ok" ->
                    [called EXCEPT !.pc = "returned", !.outcome = Ok(<<index>>)]
               [] fallback.generators[index].generate = "Exception" ->
                    [called EXCEPT !.last_exception = <<index>>, !.index = @ + 1]
               [] fallback.generators[index].generate = "BaseException" ->
                    [called EXCEPT !.pc = "returned", !.outcome = RaisedBy(index)]
    /\ UNCHANGED <<modules, waiters, registry, meta, opening, store, docs, assocs, nextId,
                   writers, readers, pc, op, loc, result, seen, opCount>>

\* the loop is over: `raise last_exception`
generate_raise ==
    /\ fallback.pc = "generate" /\ fallback.index > Len(fallback.generators)
    /\ fallback' = [fallback EXCEPT !.pc = "returned",
                                    !.outcome = RaisedBy(fallback.last_exception[1])]
    /\ UNCHANGED <<modules, waiters, registry, meta, opening, store, docs, assocs, nextId,
                   writers, readers, pc, op, loc, result, seen, opCount>>

\* the max_tokens property: min(*(g.max_tokens for g in self._generators)).
\* With one generator that is min(n) of an int, which raises TypeError.
max_tokens ==
    /\ fallback.pc = "ready"
    /\ LET ns == [i \in 1..Len(fallback.generators) |-> fallback.generators[i].max_tokens]
       IN fallback' = [fallback EXCEPT
                          !.pc = "returned", !.call = "max_tokens",
                          !.outcome = IF Len(ns) = 1 THEN Raise("TypeError")
                                      ELSE Ok(<<Min(ns)>>)]
    /\ UNCHANGED <<modules, waiters, registry, meta, opening, store, docs, assocs, nextId,
                   writers, readers, pc, op, loc, result, seen, opCount>>

GeneratorNext ==
    \/ FallbackSchematicGenerator
    \/ generate
    \/ generate_try
    \/ generate_raise
    \/ max_tokens

GeneratorSpec == GeneratorInit /\ [][GeneratorNext]_vars

Returned(call) == fallback.pc = "returned" /\ fallback.call = call

\* C37: generate calls its generators in the order given, each at most
\* once; when it returns, the result is that of the first generator that
\* succeeds and no later generator was called; when it raises, the exception
\* is that of the last generator called, and if every generator raised an
\* Exception, every generator was called.
FallbackInOrder ==
    /\ \A j \in 1..Len(fallback.invoked) : fallback.invoked[j] = j
    /\ Returned("generate") =>
          LET last == Len(fallback.invoked)
              failed == {j \in 1..Len(fallback.generators) :
                            fallback.generators[j].generate # "ok"}
          IN /\ last >= 1
             /\ fallback.outcome.value = <<last>>
             /\ \A j \in 1..(last - 1) : fallback.generators[j].generate = "Exception"
             /\ fallback.outcome.kind = "ok" <=> fallback.generators[last].generate = "ok"
             /\ (\A j \in 1..Len(fallback.generators) :
                    fallback.generators[j].generate = "Exception") =>
                   (last = Len(fallback.generators) /\ fallback.outcome.kind = "raised")

\* generate has raised after every one of three generators raised an Exception
FallbackInOrderWitness ==
    /\ Returned("generate")
    /\ fallback.outcome.kind = "raised"
    /\ Len(fallback.generators) = 3
    /\ \A j \in 1..3 : fallback.generators[j].generate = "Exception"
    /\ fallback.invoked = <<1, 2, 3>>

\* C39: max_tokens returns the least max_tokens of the generators, for every
\* non-empty tuple of generators.
MaxTokensIsMinimum ==
    Returned("max_tokens") =>
        /\ fallback.outcome.kind = "ok"
        /\ \E i \in 1..Len(fallback.generators) :
              fallback.outcome.value = <<fallback.generators[i].max_tokens>>
        /\ \A i \in 1..Len(fallback.generators) :
              fallback.outcome.value[1] <= fallback.generators[i].max_tokens

\* ------------------------------------------------------------ load_modules
\* modules.paths is the `modules` argument: the k-th module is named k and
\* defines shutdown_module / initialize_module or not.  modules.module is the
\* loop variable `module` of the import loop, which stays bound after the
\* loop; modules.shutdown lists, in call order, the modules whose
\* shutdown_module was invoked.
Modules == [shutdown_module : BOOLEAN, initialize_module : BOOLEAN]
ModuleLists == UNION {[1..n -> Modules] : n \in 0..MaxModules}

ModulesInit ==
    /\ store = "modules"
    /\ \E paths \in ModuleLists :
          modules = [NoModules EXCEPT !.paths = paths, !.pc = "import", !.i = 1]
    /\ fallback = NoFallback
    /\ waiters = <<>>
    /\ registry = NoRegistry
    /\ docs = <<>>
    /\ assocs = <<>>
    /\ nextId = 0
    /\ meta = "none"
    /\ opening = [pc |-> "end", allow |-> FALSE, outcome |-> "usable", required |-> FALSE,
                  i |-> 0, buffer |-> <<>>, handed |-> {"primary", "associations"},
                  stored |-> [docs |-> <<>>, assocs |-> <<>>, meta |-> "none"]]
    /\ writers = {}
    /\ readers = {}
    /\ pc = [p \in Procs |-> "idle"]
    /\ op = [p \in Procs |-> NoOp]
    /\ loc = [p \in Procs |-> NoLoc]
    /\ result = [p \in Procs |-> NoResult]
    /\ seen = [p \in Procs |-> {}]
    /\ opCount = 0

\* one turn of `for module_path in modules`: import, append, initializer
load_modules_import ==
    /\ modules.pc = "import" /\ modules.i <= Len(modules.paths)
    /\ modules' = [modules EXCEPT
                      !.module = <<modules.i>>,
                      !.imported_modules = Append(@, modules.i),
                      !.initializers = IF modules.paths[modules.i].initialize_module
                                       THEN Append(@, modules.i) ELSE @,
                      !.i = @ + 1]
    /\ UNCHANGED <<fallback, waiters, registry, meta, opening, store, docs, assocs, nextId,
                   writers, readers, pc, op, loc, result, seen, opCount>>

\* `yield container, initializers`: the body of the `async with` runs
load_modules_yield ==
    /\ modules.pc = "import" /\ modules.i > Len(modules.paths)
    /\ modules' = [modules EXCEPT !.pc = "body"]
    /\ UNCHANGED <<fallback, waiters, registry, meta, opening, store, docs, assocs, nextId,
                   writers, readers, pc, op, loc, result, seen, opCount>>

\* the body returns or raises; either way the `finally` block starts with
\* `for m in reversed(imported_modules)`
load_modules_finally ==
    /\ modules.pc = "body"
    /\ \E body \in {"returns", "raises"} :
          modules' = [modules EXCEPT !.pc = "finally", !.body = body,
                                     !.i = Len(modules.imported_modules)]
    /\ UNCHANGED <<fallback, waiters, registry, meta, opening, store, docs, assocs, nextId,
                   writers, readers, pc, op, loc, result, seen, opCount>>

\* one turn of the shutdown loop for m = imported_modules[i]:
\* `if shutdown_module := getattr(module, "shutdown_module", None)` looks
\* the hook up on `module`, not on m, and awaits it
load_modules_shutdown ==
    /\ modules.pc = "finally" /\ modules.i >= 1
    /\ LET module == modules.module[1]
       IN modules' = [modules EXCEPT
                         !.shutdown = IF modules.paths[module].shutdown_module
                                      THEN Append(@, module) ELSE @,
                         !.i = @ - 1]
    /\ UNCHANGED <<fallback, waiters, registry, meta, opening, store, docs, assocs, nextId,
                   writers, readers, pc, op, loc, result, seen, opCount>>

\* the shutdown loop is over: load_modules exits
load_modules_exit ==
    /\ modules.pc = "finally" /\ modules.i = 0
    /\ modules' = [modules EXCEPT !.pc = "exited"]
    /\ UNCHANGED <<fallback, waiters, registry, meta, opening, store, docs, assocs, nextId,
                   writers, readers, pc, op, loc, result, seen, opCount>>

ModulesNext ==
    \/ load_modules_import
    \/ load_modules_yield
    \/ load_modules_finally
    \/ load_modules_shutdown
    \/ load_modules_exit

ModulesSpec == ModulesInit /\ [][ModulesNext]_vars

\* C38: when load_modules has exited, the shutdown_module calls were made
\* in the reverse of the load order, once for each loaded module that
\* defines shutdown_module and for no other module.
ShutdownInReverse ==
    modules.pc = "exited" =>
        /\ \A a, b \in 1..Len(modules.shutdown) :
              a < b => modules.shutdown[a] > modules.shutdown[b]
        /\ Range(modules.shutdown) =
              {k \in 1..Len(modules.paths) : modules.paths[k].shutdown_module}

====
